---- MODULE Spec2Model ----
(***************************************************************************)
(* Model of the dialog-routing and admin-state engine of support_bot.py:   *)
(* the process-wide dictionaries admin_tags, admin_levels, active_dialogs, *)
(* admin_active_status and one_time_passwords, their SQLite mirror, and    *)
(* the handlers that read and mutate them.                                 *)
(*                                                                         *)
(* A Python dict is modelled as a sequence of <<key, value>> pairs in      *)
(* insertion order, because the handlers scan dicts and take the first     *)
(* match.  A SQLite table is a set of rows; a full-table SELECT returns    *)
(* them in admin_id (rowid) order.                                         *)
(***************************************************************************)
EXTENDS Integers, Sequences, FiniteSets, TLC

VARIABLES
    admin_tags,           \* dict admin id -> tag
    admin_levels,         \* dict admin id -> level
    active_dialogs,       \* dict admin id -> client chat id
    admin_active_status,  \* dict admin id -> BOOLEAN
    one_time_passwords,   \* dict token -> time of issue
    db,                   \* durable tables: admin_tags, admin_levels, active_dialogs, admin_status
    dialog_history,       \* durable table dialog_history: <<sender, receiver, message>> rows
    backups,              \* backup files as <<timestamp of the name, copy of db>>, oldest first
    outbox,               \* messages the most recent handler sent or edited, in order
    now,                  \* wall clock, seconds
    next_token,           \* number of one-time passwords generated so far
    ops,                  \* number of handler invocations so far
    faults,               \* number of transport faults injected so far
    workers,              \* per worker thread: the handler it is inside and its locals
    last,                 \* the most recent handler invocation: name, sender and arguments
    closed,               \* history: the <<admin, client>> dialogs that confirm_close ended
    connection,           \* db._connection of the DatabaseConnection object: "none" or "open"
    sweeper               \* the cleanup_tasks thread: its position and its locals

vars == <<admin_tags, admin_levels, active_dialogs, admin_active_status,
          one_time_passwords, db, dialog_history, backups, outbox, now,
          next_token, ops, faults, workers, last, closed, connection, sweeper>>

----------------------------------------------------------------------------
(* Bounds of the model *)

NumUsers == 3        \* chat ids 1..NumUsers are private chats of users
MaxOps == 3          \* handler invocations explored per behaviour
MaxFaults == 1       \* transport faults injected per behaviour
MaxTokens == 1       \* one-time passwords generated per behaviour
MaxTicks == 2        \* clock advances per behaviour
MaxSeconds == 6      \* seconds that pass between restarts per behaviour
NumWorkers == 2      \* worker threads that run handlers concurrently

(* Program constants *)

LEVEL2_ADMIN_ID == 1
ADMIN_CHAT_ID == 0
PASSWORD_TTL == 86400
BACKUP_KEEP == 5

Users == 1..NumUsers
Registrants == 1..2              \* users that send /set_tag
Clients == 3..NumUsers           \* users that write to the bot as clients
MigratedIds == {NumUsers + 1}    \* chat ids a ChatMigrated error can name
Tags == {"admin", "Admin", "sam"}
Tokens == 1..MaxTokens
PasswordArgs == 0..MaxTokens     \* the passwords users type; 0 is never issued
TickStep == PASSWORD_TTL

\* message texts: a plain text, or '#' followed by a tag
Texts == {[hash |-> FALSE, body |-> "hi"]}
            \cup {[hash |-> TRUE, body |-> t] : t \in {"Admin", "sam", "zed"}}

\* str.lower() on the strings of the model
Lower(s) ==
    CASE s = "Admin" -> "admin"
      [] s = "Sam" -> "sam"
      [] OTHER -> s

----------------------------------------------------------------------------
(* Python dict operations on insertion-ordered sequences of pairs *)

Keys(d) == {d[i][1] : i \in DOMAIN d}
Values(d) == {d[i][2] : i \in DOMAIN d}
Has(d, k) == k \in Keys(d)
Get(d, k) == d[CHOOSE i \in DOMAIN d : d[i][1] = k][2]
GetOr(d, k, default) == IF Has(d, k) THEN Get(d, k) ELSE default
Put(d, k, v) ==
    IF Has(d, k)
    THEN [i \in DOMAIN d |-> IF d[i][1] = k THEN <<k, v>> ELSE d[i]]
    ELSE Append(d, <<k, v>>)
Del(d, k) == SelectSeq(d, LAMBDA p : p[1] # k)
\* index of the first item whose value is v, 0 when there is none
FirstWithValue(d, v) ==
    IF v \in Values(d)
    THEN CHOOSE i \in DOMAIN d : d[i][2] = v /\ \A j \in 1..(i - 1) : d[j][2] # v
    ELSE 0

\* rows of a table in rowid order, as fetchall() of SELECT * returns them
RECURSIVE RowsInIdOrder(_)
RowsInIdOrder(rows) ==
    IF rows = {} THEN <<>>
    ELSE LET r == CHOOSE x \in rows : \A y \in rows : x[1] <= y[1]
         IN <<r>> \o RowsInIdOrder(rows \ {r})
DictRows(d) == {d[i] : i \in DOMAIN d}

----------------------------------------------------------------------------
(* The state a handler works on, as one record *)

Cur ==
    [admin_tags |-> admin_tags, admin_levels |-> admin_levels,
     active_dialogs |-> active_dialogs,
     admin_active_status |-> admin_active_status,
     one_time_passwords |-> one_time_passwords,
     db |-> db, history |-> dialog_history, backups |-> backups,
     outbox |-> <<>>, now |-> now]

Commit(S) ==
    /\ admin_tags' = S.admin_tags
    /\ admin_levels' = S.admin_levels
    /\ active_dialogs' = S.active_dialogs
    /\ admin_active_status' = S.admin_active_status
    /\ one_time_passwords' = S.one_time_passwords
    /\ db' = S.db
    /\ dialog_history' = S.history
    /\ backups' = S.backups
    /\ outbox' = S.outbox

----------------------------------------------------------------------------
(* DatabaseConnection: backup files *)

\* the tables of a database file that does not exist yet
EmptyTables ==
    [admin_tags |-> {}, admin_levels |-> {}, active_dialogs |-> {},
     admin_status |-> {}]

\* _create_backup: when the database file exists, copy it to a file named
\* after the current second, then keep the 5 newest by name
LastN(s, n) == IF Len(s) <= n THEN s ELSE SubSeq(s, Len(s) - n + 1, Len(s))
CreateBackup_KeepsOldest(S) ==
    LET named == IF S.backups # <<>> /\ S.backups[Len(S.backups)][1] = S.now
                 THEN [S.backups EXCEPT ![Len(S.backups)] = <<S.now, S.db>>]
                 ELSE Append(S.backups, <<S.now, S.db>>)
    IN IF S.db = EmptyTables THEN S
       ELSE [S EXCEPT !.backups = SubSeq(named, 1, IF Len(named) <= BACKUP_KEEP
                                                   THEN Len(named) ELSE BACKUP_KEEP)]
CreateBackup(S) ==
    LET named == IF S.backups # <<>> /\ S.backups[Len(S.backups)][1] = S.now
                 THEN [S.backups EXCEPT ![Len(S.backups)] = <<S.now, S.db>>]
                 ELSE Append(S.backups, <<S.now, S.db>>)
    IN IF S.db = EmptyTables THEN S
       ELSE [S EXCEPT !.backups = LastN(named, BACKUP_KEEP)]

\* _restore_from_backup: copy the newest backup over the database file
RestoreFromBackup(S) ==
    IF S.backups # <<>>
    THEN [S EXCEPT !.db = S.backups[Len(S.backups)][2]]
    ELSE S

----------------------------------------------------------------------------
(* save_state and init_database *)

BoolToInt(b) == IF b THEN 1 ELSE 0
IntToBool(n) == n # 0

\* the constraints of the schema that an INSERT of the whole registry can break:
\* tag TEXT UNIQUE (binary collation) and CHECK (level IN (1, 2))
InsertsSucceed(S) ==
    /\ \A i, j \in DOMAIN S.admin_tags :
          S.admin_tags[i][2] = S.admin_tags[j][2] => i = j
    /\ \A i \in DOMAIN S.admin_levels : S.admin_levels[i][2] \in {1, 2}

TablesOf(S) ==
    [admin_tags |-> DictRows(S.admin_tags),
     admin_levels |-> DictRows(S.admin_levels),
     active_dialogs |-> DictRows(S.active_dialogs),
     admin_status |-> {<<S.admin_active_status[i][1],
                         BoolToInt(S.admin_active_status[i][2])>> :
                            i \in DOMAIN S.admin_active_status}]

\* save_state: delete-all and re-insert-all in one transaction; on an error
\* roll back, back up, retry the same inserts without the timestamp columns,
\* and restore the newest backup when the retry fails too
save_state(S) ==
    IF InsertsSucceed(S)
    THEN [S EXCEPT !.db = TablesOf(S)]
    ELSE RestoreFromBackup(CreateBackup(S))

\* INSERT OR IGNORE of one row: skipped when the primary key or a UNIQUE
\* column collides with a row of the table
InsertOrIgnore(rows, row, uniqueValue) ==
    IF \E r \in rows : r[1] = row[1] \/ (uniqueValue /\ r[2] = row[2])
    THEN rows
    ELSE rows \cup {row}

\* INSERT OR REPLACE of one row: the colliding rows are deleted first
InsertOrReplace(rows, row, uniqueValue) ==
    {r \in rows : r[1] # row[1] /\ ~(uniqueValue /\ r[2] = row[2])} \cup {row}

\* the seeding statements of init_database
SeedLevel2(tables) ==
    IF LEVEL2_ADMIN_ID # 0
    THEN [tables EXCEPT
            !.admin_tags = InsertOrIgnore(@, <<LEVEL2_ADMIN_ID, "admin">>, TRUE),
            !.admin_levels = InsertOrIgnore(@, <<LEVEL2_ADMIN_ID, 2>>, FALSE),
            !.admin_status = InsertOrIgnore(@, <<LEVEL2_ADMIN_ID, 1>>, FALSE)]
    ELSE tables

\* the load of init_database: clear the four dicts and fill them from the tables
LoadState(S) ==
    [S EXCEPT
        !.admin_tags = RowsInIdOrder(S.db.admin_tags),
        !.admin_levels = RowsInIdOrder(S.db.admin_levels),
        !.active_dialogs = RowsInIdOrder(S.db.active_dialogs),
        !.admin_active_status =
            LET rows == RowsInIdOrder(S.db.admin_status)
            IN [i \in DOMAIN rows |-> <<rows[i][1], IntToBool(rows[i][2])>>]]

\* init_database: back up the file if there is one, create and seed the
\* tables, load the dicts
init_database(S) ==
    LET backed == CreateBackup(S)
    IN LoadState([backed EXCEPT !.db = SeedLevel2(backed.db)])

----------------------------------------------------------------------------
(* The Messenger: outcomes of one send *)

NoFault == [at |-> 0, how |-> "ok", new |-> 0]
FaultsAt(sites) ==
    {[at |-> i, how |-> h, new |-> 0] : i \in sites, h \in {"unauthorized", "error"}}
        \cup {[at |-> i, how |-> "migrated", new |-> n] : i \in sites, n \in MigratedIds}
HowAt(f, site) == IF f.at = site THEN f.how ELSE "ok"

\* the assignment table on disk is the one in memory: a restart at this
\* point of a handler loads the assignments the handler has made so far
Mirrored(S) == S.db.active_dialogs = DictRows(S.active_dialogs)

\* a message handed to Telegram; how is "ok" or the error the call raised,
\* targets are the ids its buttons carry, and persisted records whether the
\* assignment table was on disk at the moment of the call
Msg(chat, kind, ok, persisted) ==
    [to |-> chat, kind |-> kind, ok |-> ok, how |-> IF ok THEN "ok" ELSE "error",
     targets |-> <<>>, persisted |-> persisted]
Emit(S, chat, kind, ok) ==
    [S EXCEPT !.outbox = Append(@, Msg(chat, kind, ok, Mirrored(S)))]
\* the error that the call recorded last raised
Because(S, how) == [S EXCEPT !.outbox[Len(S.outbox)].how = how]
\* a call of bot.send_message or edit_message_text at a site of the handler
EmitAt(S, f, site, chat, kind) ==
    IF f.at = site
    THEN Because(Emit(S, chat, kind, FALSE), f.how)
    ELSE Emit(S, chat, kind, TRUE)

\* save_message_to_history(sender_id, receiver_id, message)
save_message_to_history(S, sender_id, receiver_id, message) ==
    [S EXCEPT !.history = Append(@, <<sender_id, receiver_id, message>>)]

\* the two UPDATE statements of the ChatMigrated branch
RenameInHistory(S, chat_id, new_chat_id) ==
    [S EXCEPT !.history =
        [i \in DOMAIN @ |->
            <<IF @[i][1] = chat_id THEN new_chat_id ELSE @[i][1],
              IF @[i][2] = chat_id THEN new_chat_id ELSE @[i][2],
              @[i][3]>>]]

\* the Unauthorized branch of safe_send_message: drop the first assignment
\* whose client is the chat that blocked the bot, and save
DropBlocked(S, chat_id) ==
    LET i == FirstWithValue(S.active_dialogs, chat_id)
    IN IF i = 0 THEN S
       ELSE save_state([S EXCEPT !.active_dialogs = Del(@, S.active_dialogs[i][1])])

\* the ChatMigrated branch of safe_send_message: rewrite the first assignment
\* that references the old chat id, and save
RewriteMigrated(S, chat_id, new_chat_id) ==
    LET i == FirstWithValue(S.active_dialogs, chat_id)
    IN IF i = 0 THEN S
       ELSE save_state([S EXCEPT
                !.active_dialogs = Put(@, S.active_dialogs[i][1], new_chat_id)])

\* safe_send_message(bot, chat_id, text): how is the outcome of bot.send_message
safe_send_message(S, chat_id, kind, how, new_chat_id) ==
    CASE how = "ok" -> Emit(S, chat_id, kind, TRUE)
      [] how = "migrated" ->
            Emit(Because(Emit(RenameInHistory(RewriteMigrated(S, chat_id, new_chat_id),
                                              chat_id, new_chat_id),
                              chat_id, kind, FALSE),
                         how),
                 new_chat_id, kind, TRUE)
      [] how = "unauthorized" ->
            Because(Emit(DropBlocked(S, chat_id), chat_id, kind, FALSE), how)
      [] OTHER -> Emit(S, chat_id, kind, FALSE)

\* the value safe_send_message returns is a message (truthy) or None
Delivered(how) == how \in {"ok", "migrated"}

SafeSend(S, f, site, chat_id, kind) ==
    safe_send_message(S, chat_id, kind, HowAt(f, site), f.new)

\* safe_send_message(..., reply_markup=...): the buttons ride on every
\* send_message the call makes
SafeSendMarkup(S, f, site, chat_id, kind, targets) ==
    LET S1 == SafeSend(S, f, site, chat_id, kind)
    IN [S1 EXCEPT !.outbox =
            [i \in DOMAIN @ |-> IF i > Len(S.outbox)
                                 THEN [@[i] EXCEPT !.targets = targets]
                                 ELSE @[i]]]

----------------------------------------------------------------------------
(* handle_message *)

\* the tag scan of handle_message: index in admin_tags of the first admin
\* whose tag equals the requested tag ignoring case, 0 when there is none
findByTag(tags, requested_tag) ==
    LET hits == {i \in DOMAIN tags : Lower(tags[i][2]) = requested_tag}
    IN IF hits = {} THEN 0
       ELSE CHOOSE i \in hits : \A j \in hits : i <= j

\* the scan of active_dialogs for the admin that holds a client, 0 when none
findAssignedAdminFor(dialogs, chat_id) ==
    LET i == FirstWithValue(dialogs, chat_id)
    IN IF i = 0 THEN 0 ELSE dialogs[i][1]

\* AdminMessage that forwards without writing the history
AdminMessage_NoHistory(S, user_id, message, f) ==
    IF Has(S.active_dialogs, user_id)
    THEN LET client_id == Get(S.active_dialogs, user_id)
             S1 == SafeSend(S, f, 1, client_id, "AdminReply")
         IN IF Delivered(HowAt(f, 1)) THEN S1
            ELSE SafeSend(S1, f, 2, user_id, "SendFailed")
    ELSE S

\* sender is a registered admin
AdminMessage(S, user_id, message, f) ==
    IF Has(S.active_dialogs, user_id)
    THEN LET client_id == Get(S.active_dialogs, user_id)
             S1 == SafeSend(S, f, 1, client_id, "AdminReply")
         IN IF Delivered(HowAt(f, 1))
            THEN save_message_to_history(S1, user_id, client_id, message)
            ELSE SafeSend(S1, f, 2, user_id, "SendFailed")
    ELSE S

\* TagSelection without the test 'selected_admin in active_dialogs'
TagSelection_NoBusyCheck(S, chat_id, body, f) ==
    LET requested_tag == Lower(body)
        i == findByTag(S.admin_tags, requested_tag)
        selected_admin == IF i = 0 THEN 0 ELSE S.admin_tags[i][1]
    IN IF i # 0 /\ ~GetOr(S.admin_active_status, selected_admin, TRUE)
       THEN SafeSend(S, f, 1, chat_id, "AdminInactive")
       ELSE IF selected_admin # 0
       THEN LET S1 == save_state([S EXCEPT
                         !.active_dialogs = Put(@, selected_admin, chat_id)])
                S2 == SafeSend(S1, f, 1, chat_id, "TagSelected")
            IN SafeSend(S2, f, 2, selected_admin, "ClientChoseYou")
       ELSE SafeSend(S, f, 1, chat_id, "AdminNotFound")

\* sender is not an admin and the text starts with '#'
TagSelection(S, chat_id, body, f) ==
    LET requested_tag == Lower(body)
        i == findByTag(S.admin_tags, requested_tag)
        selected_admin == IF i = 0 THEN 0 ELSE S.admin_tags[i][1]
    IN IF i # 0 /\ ~GetOr(S.admin_active_status, selected_admin, TRUE)
       THEN SafeSend(S, f, 1, chat_id, "AdminInactive")
       ELSE IF selected_admin # 0
       THEN IF Has(S.active_dialogs, selected_admin)
            THEN SafeSend(S, f, 1, chat_id, "AdminBusy")
            ELSE LET S1 == save_state([S EXCEPT
                              !.active_dialogs = Put(@, selected_admin, chat_id)])
                     S2 == SafeSend(S1, f, 1, chat_id, "TagSelected")
                 IN SafeSend(S2, f, 2, selected_admin, "ClientChoseYou")
       ELSE SafeSend(S, f, 1, chat_id, "AdminNotFound")

\* PlainMessage that never looks for the admin holding the client
PlainMessage_AlwaysBroadcast(S, chat_id, message, f) ==
    SafeSend(SafeSendMarkup(S, f, 1, ADMIN_CHAT_ID, "NewClientMessage", <<chat_id>>),
             f, 2, chat_id, "Received")

\* sender is not an admin and the text is plain
PlainMessage(S, chat_id, message, f) ==
    LET admin_id == findAssignedAdminFor(S.active_dialogs, chat_id)
    IN IF admin_id # 0
       THEN save_message_to_history(SafeSend(S, f, 1, admin_id, "ClientMessage"),
                                    chat_id, admin_id, message)
       ELSE SafeSend(SafeSendMarkup(S, f, 1, ADMIN_CHAT_ID, "NewClientMessage",
                                    <<chat_id>>),
                     f, 2, chat_id, "Received")

\* handle_message that treats an admin without a dialog as a client
handle_message_IdleAdminAsClient(S, user_id, text, f) ==
    IF Has(S.admin_levels, user_id) /\ Has(S.active_dialogs, user_id)
    THEN AdminMessage(S, user_id, text, f)
    ELSE IF text.hash
         THEN TagSelection(S, user_id, text.body, f)
         ELSE PlainMessage(S, user_id, text, f)

handle_message(S, user_id, text, f) ==
    IF Has(S.admin_levels, user_id)
    THEN AdminMessage(S, user_id, text, f)
    ELSE IF text.hash
         THEN TagSelection(S, user_id, text.body, f)
         ELSE PlainMessage(S, user_id, text, f)

----------------------------------------------------------------------------
(* Handlers that call bot.send_message / bot.edit_message_text directly: a   *)
(* failed call raises and ends the handler.  The edit of the message that    *)
(* carries the pressed button is recorded against the user who pressed it.   *)

\* send msgs (a sequence of <<chat, kind>>) in order, as sites first, first+1, ...;
\* the call at the faulty site raises, so it and the later ones deliver nothing
RECURSIVE RawSends(_, _, _, _)
RawSends(S, f, first, msgs) ==
    IF msgs = <<>> THEN S
    ELSE IF f.at = first
         THEN Because(Emit(S, msgs[1][1], msgs[1][2], FALSE), f.how)
         ELSE RawSends(Emit(S, msgs[1][1], msgs[1][2], TRUE), f, first + 1, Tail(msgs))

Raised(f, first, n) == f.at >= first /\ f.at < first + n

\* button "take_client_<client_id>": the check, its two continuations, and
\* the handler as a whole
already_claimed(S, client_id) == client_id \in Values(S.active_dialogs)
take_reject(S, user_id, f) ==
    RawSends(S, f, 1, <<<<user_id, "ClientAlreadyClaimed">>>>)
take_insert(S, user_id, client_id, f) ==
    RawSends([S EXCEPT !.active_dialogs = Put(@, user_id, client_id)], f, 1,
             <<<<user_id, "TookClient">>, <<client_id, "AdminJoined">>>>)
take_client(S, user_id, client_id, f) ==
    IF already_claimed(S, client_id)
    THEN take_reject(S, user_id, f)
    ELSE take_insert(S, user_id, client_id, f)

\* button "close_dialog"
close_dialog(S, user_id, f) ==
    IF Has(S.active_dialogs, user_id)
    THEN RawSends(S, f, 1, <<<<user_id, "ConfirmClosePrompt">>>>)
    ELSE RawSends(S, f, 1, <<<<user_id, "NoActiveDialog">>>>)

\* button "confirm_close"
confirm_close(S, user_id, f) ==
    IF Has(S.active_dialogs, user_id)
    THEN LET client_id == Get(S.active_dialogs, user_id)
         IN RawSends([S EXCEPT !.active_dialogs = Del(@, user_id)], f, 1,
                     <<<<client_id, "DialogClosed">>, <<user_id, "DialogClosedConfirm">>>>)
    ELSE S

\* get_admin_transfer_keyboard: the targets that get a button.  The loop body
\* calls bot.get_chat on a name `bot` that the module never binds; the
\* NameError is swallowed by the bare except and the admin is skipped.
BotIsBound == FALSE
get_admin_transfer_keyboard(S, admin_id) ==
    LET others == SelectSeq(S.admin_tags, LAMBDA p : p[1] # admin_id)
    IN IF BotIsBound THEN [i \in DOMAIN others |-> others[i][1]] ELSE <<>>

\* edit_message_text(..., reply_markup=keyboard) at a site of the handler
KeyboardAt(S, f, site, chat, kind, targets) ==
    LET S1 == EmitAt(S, f, site, chat, kind)
    IN [S1 EXCEPT !.outbox[Len(S1.outbox)].targets = targets]

\* button "transfer_client"
transfer_menu(S, user_id, f) ==
    IF ~Has(S.active_dialogs, user_id)
    THEN RawSends(S, f, 1, <<<<user_id, "NoActiveDialog">>>>)
    ELSE KeyboardAt(S, f, 1, user_id, "ChooseTarget",
                    get_admin_transfer_keyboard(S, user_id))

\* transfer_client that puts the old table back when a notification fails
transfer_client_RollsBack(S, user_id, target_admin_id, f) ==
    IF ~Has(S.active_dialogs, user_id)
    THEN RawSends(S, f, 1, <<<<user_id, "NoActiveDialog">>>>)
    ELSE IF Has(S.active_dialogs, target_admin_id)
    THEN LET S1 == RawSends(S, f, 1, <<<<user_id, "TargetBusy">>>>)
         IN IF f.at = 1 THEN S1
            ELSE KeyboardAt(S1, f, 2, user_id, "ChooseTarget",
                            get_admin_transfer_keyboard(S, user_id))
    ELSE LET client_id == Get(S.active_dialogs, user_id)
             moved == Put(Del(S.active_dialogs, user_id), target_admin_id, client_id)
             S1 == save_state([S EXCEPT !.active_dialogs = moved])
             S2 == RawSends(S1, f, 1,
                       <<<<client_id, "DialogTransferred">>,
                         <<target_admin_id, "ClientHandedOver">>,
                         <<user_id, "TransferDone">>>>)
         IN IF Raised(f, 1, 3)
            THEN Emit(save_state([S2 EXCEPT !.active_dialogs = S.active_dialogs]),
                      user_id, "TransferError", TRUE)
            ELSE S2

\* transfer_client(update, context, target_admin_id), button "transfer_<id>"
transfer_client(S, user_id, target_admin_id, f) ==
    IF ~Has(S.active_dialogs, user_id)
    THEN RawSends(S, f, 1, <<<<user_id, "NoActiveDialog">>>>)
    ELSE IF Has(S.active_dialogs, target_admin_id)
    THEN LET S1 == RawSends(S, f, 1, <<<<user_id, "TargetBusy">>>>)
         IN IF f.at = 1 THEN S1
            ELSE KeyboardAt(S1, f, 2, user_id, "ChooseTarget",
                            get_admin_transfer_keyboard(S, user_id))
    ELSE LET client_id == Get(S.active_dialogs, user_id)
             moved == Put(Del(S.active_dialogs, user_id), target_admin_id, client_id)
             S1 == save_state([S EXCEPT !.active_dialogs = moved])
             S2 == RawSends(S1, f, 1,
                       <<<<client_id, "DialogTransferred">>,
                         <<target_admin_id, "ClientHandedOver">>,
                         <<user_id, "TransferDone">>>>)
         IN IF Raised(f, 1, 3)
            THEN Emit(S2, user_id, "TransferError", TRUE)
            ELSE S2

----------------------------------------------------------------------------
(* Registration, promotion, status *)

\* generate_password without the test of the actor's level
generate_password_AnyLevel(S, user_id, password, f) ==
    RawSends([S EXCEPT !.one_time_passwords = Put(@, password, S.now)], f, 1,
             <<<<user_id, "PasswordGenerated">>>>)

\* button "generate_password"; password is what generate_one_time_password returned
generate_password(S, user_id, password, f) ==
    IF GetOr(S.admin_levels, user_id, 0) = 2
    THEN RawSends([S EXCEPT !.one_time_passwords = Put(@, password, S.now)], f, 1,
                  <<<<user_id, "PasswordGenerated">>>>)
    ELSE S

\* the three INSERT OR REPLACE statements of set_tag_command
StoreNewAdmin(tables, user_id, tag) ==
    [tables EXCEPT
        !.admin_tags = InsertOrReplace(@, <<user_id, tag>>, TRUE),
        !.admin_levels = InsertOrReplace(@, <<user_id, 1>>, FALSE),
        !.admin_status = InsertOrReplace(@, <<user_id, BoolToInt(TRUE)>>, FALSE)]

\* lines 776-778 of set_tag_command: the user becomes a level-1 admin
register_admin(S, user_id, tag) ==
    [S EXCEPT !.admin_tags = Put(@, user_id, tag),
              !.admin_levels = Put(@, user_id, 1),
              !.admin_active_status = Put(@, user_id, TRUE)]

\* store_admin that answers without writing the database
store_admin_MemoryOnly(S, user_id, tag, f) ==
    IF f.at = 1
    THEN RawSends(EmitAt(S, f, 1, user_id, "TagSet"), f, 2,
                  <<<<user_id, "SaveError">>>>)
    ELSE Emit(S, user_id, "TagSet", TRUE)

\* lines 782-810 of set_tag_command: the database write and the reply
store_admin(S, user_id, tag, f) ==
    LET S2 == [S EXCEPT !.db = StoreNewAdmin(@, user_id, tag)]
    IN IF f.at = 1
       THEN RawSends(EmitAt(S2, f, 1, user_id, "TagSet"), f, 2,
                     <<<<user_id, "SaveError">>>>)
       ELSE Emit(S2, user_id, "TagSet", TRUE)

\* set_tag_command without the test of the password's age
set_tag_command_NoExpiryCheck(S, user_id, password, tag, f) ==
    IF Has(S.one_time_passwords, password)
    THEN store_admin([register_admin(S, user_id, tag) EXCEPT
                         !.one_time_passwords = Del(@, password)],
                     user_id, tag, f)
    ELSE RawSends(S, f, 1, <<<<user_id, "InvalidPassword">>>>)

\* /set_tag <password> <tag>
set_tag_command(S, user_id, password, tag, f) ==
    IF Has(S.one_time_passwords, password)
    THEN IF S.now - Get(S.one_time_passwords, password) <= PASSWORD_TTL
         THEN store_admin([register_admin(S, user_id, tag) EXCEPT
                              !.one_time_passwords = Del(@, password)],
                          user_id, tag, f)
         ELSE RawSends([S EXCEPT !.one_time_passwords = Del(@, password)], f, 1,
                       <<<<user_id, "PasswordExpired">>>>)
    ELSE RawSends(S, f, 1, <<<<user_id, "InvalidPassword">>>>)

\* /promote <target_id>
promote_admin_command(S, user_id, target_id, f) ==
    IF GetOr(S.admin_levels, user_id, 0) # 2
    THEN RawSends(S, f, 1, <<<<user_id, "Unauthorized">>>>)
    ELSE IF ~Has(S.admin_levels, target_id)
    THEN RawSends(S, f, 1, <<<<user_id, "NotAnAdmin">>>>)
    ELSE IF Get(S.admin_levels, target_id) = 2
    THEN RawSends(S, f, 1, <<<<user_id, "AlreadyMaxLevel">>>>)
    ELSE LET S1 == save_state([S EXCEPT
                      !.admin_levels = Put(@, target_id, 2),
                      !.admin_active_status = Put(@, target_id, TRUE)])
         IN IF f.at = 1
            THEN EmitAt(S1, f, 1, user_id, "Promoted")
            ELSE EmitAt(Emit(S1, user_id, "Promoted", TRUE),
                        f, 2, target_id, "YouArePromoted")

\* toggle_activity_status followed by update_admin_panel, button "toggle_status"
toggle_activity_status(S, user_id) ==
    IF ~Has(S.admin_levels, user_id) THEN S
    ELSE save_state([S EXCEPT !.admin_active_status =
                        Put(@, user_id, ~GetOr(S.admin_active_status, user_id, TRUE))])

toggle_status(S, user_id, f) ==
    RawSends(toggle_activity_status(S, user_id), f, 1, <<<<user_id, "AdminPanel">>>>)

----------------------------------------------------------------------------
(* Initial state: main() has run init_database on a fresh database file *)

\* the cleanup_tasks thread between two sweeps (time.sleep(3600), line 1756)
Asleep ==
    [pc |-> "sleep", current_time |-> 0, size |-> 0, seen |-> {}, expired |-> <<>>,
     result |-> ""]

Idle ==
    [pc |-> "idle", user |-> 0, client |-> 0, target |-> 0, unclaimed |-> FALSE,
     result |-> "", token |-> 0, tag |-> "", steps |-> <<>>]
Call(op, user, arg, text, hash) ==
    [op |-> op, user |-> user, arg |-> arg, text |-> text, hash |-> hash]

\* the database file main() finds: none (first start), or the file an earlier
\* run left behind after its level-2 admin issued a password and user 2
\* redeemed it with the tag "sam"
NoFile == EmptyTables
EarlierRun ==
    StoreNewAdmin(SeedLevel2(EmptyTables), 2, "sam")
DatabaseFiles == {NoFile, EarlierRun}

Globals(tables) ==
    [admin_tags |-> <<>>, admin_levels |-> <<>>, active_dialogs |-> <<>>,
     admin_active_status |-> <<>>, one_time_passwords |-> <<>>,
     db |-> tables, history |-> <<>>, backups |-> <<>>, outbox |-> <<>>,
     now |-> 0]

Started(file) == init_database(Globals(file))

InitFrom(files) ==
    /\ \E file \in files :
       LET S == Started(file)
       IN /\ admin_tags = S.admin_tags
          /\ admin_levels = S.admin_levels
          /\ active_dialogs = S.active_dialogs
          /\ admin_active_status = S.admin_active_status
          /\ one_time_passwords = S.one_time_passwords
          /\ db = S.db
          /\ dialog_history = S.history
          /\ backups = S.backups
          /\ outbox = S.outbox
    /\ now = 0
    /\ next_token = 0
    /\ ops = 0
    /\ faults = 0
    /\ workers = [w \in 1..NumWorkers |-> Idle]
    /\ last = Call("start", 0, 0, "", FALSE)
    /\ closed = {}
    /\ connection = "none"
    /\ sweeper = Asleep

Init == InitFrom(DatabaseFiles)

----------------------------------------------------------------------------
(* Actions: one handler invocation each, run to completion *)

FaultChoices(sites) ==
    {NoFault} \cup (IF faults < MaxFaults THEN FaultsAt(sites) ELSE {})
Outcomes(faulty, sites) == IF faulty THEN FaultChoices(sites) ELSE {NoFault}

Invoke(S, call, f) ==
    /\ ops < MaxOps
    /\ Commit(S)
    /\ last' = call
    /\ ops' = ops + 1
    /\ faults' = IF f = NoFault THEN faults ELSE faults + 1
    /\ closed' = IF call.op = "confirm_close" /\ Has(active_dialogs, call.user)
                 THEN closed \cup {<<call.user, Get(active_dialogs, call.user)>>}
                 ELSE closed
    /\ UNCHANGED <<connection, sweeper>>
    /\ UNCHANGED <<now, workers>>

HandleMessageWith(faulty) ==
    \E u \in Users, t \in Texts, f \in Outcomes(faulty, {1, 2}) :
        /\ Invoke(handle_message(Cur, u, t, f), Call("message", u, 0, t.body, t.hash), f)
        /\ UNCHANGED next_token

TakeClientWith(faulty) ==
    \E u \in Users, c \in Clients, f \in Outcomes(faulty, {1, 2}) :
        /\ Invoke(take_client(Cur, u, c, f), Call("take_client", u, c, "", FALSE), f)
        /\ UNCHANGED next_token

CloseDialogWith(faulty) ==
    \E u \in Users, f \in Outcomes(faulty, {1}) :
        /\ Invoke(close_dialog(Cur, u, f), Call("close_dialog", u, 0, "", FALSE), f)
        /\ UNCHANGED next_token

ConfirmCloseWith(faulty) ==
    \E u \in Users, f \in Outcomes(faulty, {1, 2}) :
        /\ Invoke(confirm_close(Cur, u, f), Call("confirm_close", u, 0, "", FALSE), f)
        /\ UNCHANGED next_token

TransferMenuWith(faulty) ==
    \E u \in Users, f \in Outcomes(faulty, {1}) :
        /\ Invoke(transfer_menu(Cur, u, f), Call("transfer_client", u, 0, "", FALSE), f)
        /\ UNCHANGED next_token

TransferWith(faulty) ==
    \E u \in Users, target \in Users, f \in Outcomes(faulty, {1, 2, 3}) :
        /\ Invoke(transfer_client(Cur, u, target, f), Call("transfer", u, target, "", FALSE), f)
        /\ UNCHANGED next_token

GeneratePasswordWith(faulty) ==
    \E u \in Users, f \in Outcomes(faulty, {1}) :
        /\ next_token < MaxTokens
        /\ Invoke(generate_password(Cur, u, next_token + 1, f),
                  Call("generate_password", u, next_token + 1, "", FALSE), f)
        /\ next_token' = IF GetOr(admin_levels, u, 0) = 2
                         THEN next_token + 1 ELSE next_token

SetTagWith(faulty) ==
    \E u \in Registrants, pw \in PasswordArgs, tag \in Tags, f \in Outcomes(faulty, {1, 2}) :
        /\ Invoke(set_tag_command(Cur, u, pw, tag, f), Call("set_tag", u, pw, tag, FALSE), f)
        /\ UNCHANGED next_token

PromoteWith(faulty) ==
    \E u \in Users, target \in Users, f \in Outcomes(faulty, {1, 2}) :
        /\ Invoke(promote_admin_command(Cur, u, target, f),
                  Call("promote", u, target, "", FALSE), f)
        /\ UNCHANGED next_token

ToggleStatusWith(faulty) ==
    \E u \in Users, f \in Outcomes(faulty, {1}) :
        /\ Invoke(toggle_status(Cur, u, f), Call("toggle_status", u, 0, "", FALSE), f)
        /\ UNCHANGED next_token

\* the process is restarted: the module globals are rebuilt and main() runs
\* init_database on the existing database file
Restart ==
    /\ ops < MaxOps
    /\ Commit(init_database([Cur EXCEPT !.one_time_passwords = <<>>]))
    /\ last' = Call("restart", 0, 0, "", FALSE)
    /\ ops' = ops + 1
    /\ workers' = [w \in 1..NumWorkers |-> Idle]
    /\ connection' = "none"
    /\ sweeper' = Asleep
    /\ UNCHANGED <<now, next_token, faults, closed>>

\* time passes.  The handlers read the clock only to test the age of a
\* password (line 775), so the clock is advanced only while the registry
\* holds a password that has not expired yet.
Tick ==
    /\ now < MaxTicks * TickStep
    /\ \E i \in DOMAIN one_time_passwords :
          now - one_time_passwords[i][2] <= PASSWORD_TTL
    /\ now' = now + TickStep
    /\ UNCHANGED <<admin_tags, admin_levels, active_dialogs, admin_active_status,
                   one_time_passwords, db, dialog_history, backups, outbox,
                   next_token, ops, faults, workers, last, closed, connection, sweeper>>

\* the handlers with a Messenger that delivers every message
HandleMessage == HandleMessageWith(FALSE)
TakeClient == TakeClientWith(FALSE)
CloseDialog == CloseDialogWith(FALSE)
ConfirmClose == ConfirmCloseWith(FALSE)
TransferMenu == TransferMenuWith(FALSE)
Transfer == TransferWith(FALSE)
GeneratePassword == GeneratePasswordWith(FALSE)
SetTag == SetTagWith(FALSE)
Promote == PromoteWith(FALSE)
ToggleStatus == ToggleStatusWith(FALSE)

Next ==
    \/ HandleMessage
    \/ TakeClient
    \/ CloseDialog
    \/ ConfirmClose
    \/ TransferMenu
    \/ Transfer
    \/ GeneratePassword
    \/ SetTag
    \/ Promote
    \/ ToggleStatus
    \/ Restart
    \/ Tick

Spec == Init /\ [][Next]_vars

\* the handlers with a Messenger whose sends can fail
HandleMessageT == HandleMessageWith(TRUE)
TakeClientT == TakeClientWith(TRUE)
CloseDialogT == CloseDialogWith(TRUE)
ConfirmCloseT == ConfirmCloseWith(TRUE)
TransferMenuT == TransferMenuWith(TRUE)
TransferT == TransferWith(TRUE)
GeneratePasswordT == GeneratePasswordWith(TRUE)
SetTagT == SetTagWith(TRUE)
PromoteT == PromoteWith(TRUE)
ToggleStatusT == ToggleStatusWith(TRUE)

NextTransport ==
    \/ HandleMessageT
    \/ TakeClientT
    \/ CloseDialogT
    \/ ConfirmCloseT
    \/ TransferMenuT
    \/ TransferT
    \/ GeneratePasswordT
    \/ SetTagT
    \/ PromoteT
    \/ ToggleStatusT
    \/ Restart
    \/ Tick

SpecTransport == Init /\ [][NextTransport]_vars

\* transfers, and the operations that lead to one, with a Messenger whose
\* sends can fail: clients write and select admins, admins are registered
\* and hand clients over
NextRelay ==
    \/ HandleMessageT
    \/ TransferT
    \/ GeneratePassword
    \/ SetTag

SpecRelay == Init /\ [][NextRelay]_vars

\* the bot started on the file of a longer earlier run: its level-2 admin
\* issued a password, user 2 redeemed it with the tag "Admin" and later
\* switched to inactive
LaterRun ==
    LET S0 == Started(NoFile)
        S1 == generate_password(S0, LEVEL2_ADMIN_ID, 1, NoFault)
        S2 == set_tag_command(S1, 2, 1, "Admin", NoFault)
    IN toggle_activity_status(S2, 2).db

SpecLater == InitFrom({LaterRun}) /\ [][Next]_vars

\* the bot started on the file of an earlier run that was stopped while
\* admin 1 held client 3, who had written '#Admin'
BusyRun ==
    handle_message(Started(NoFile), 3, [hash |-> TRUE, body |-> "Admin"], NoFault).db

SpecResumed == InitFrom({BusyRun}) /\ [][Next]_vars

----------------------------------------------------------------------------
(* The worker pool: Updater(workers=8) with run_async=True on every handler  *)
(* runs handlers on threads that share the dicts without a lock.  A thread   *)
(* can be preempted between any two statements; the 'take client' handler is *)
(* split where that matters, between its check and its insert.               *)

WORKERS == 8
Pool == 1..NumWorkers

\* a worker picks up a "take_client_<c>" callback of user u (lines 1052-1091)
TakeStart(w, u, c) ==
    /\ ops < MaxOps
    /\ workers[w].pc \in {"idle", "done"}
    /\ workers' = [workers EXCEPT ![w] =
            [Idle EXCEPT !.pc = "check", !.user = u, !.client = c,
                         !.unclaimed = ~already_claimed(Cur, c)]]
    /\ last' = Call("take_client", u, c, "", FALSE)
    /\ ops' = ops + 1
    /\ UNCHANGED <<admin_tags, admin_levels, active_dialogs, admin_active_status,
                   one_time_passwords, db, dialog_history, backups, outbox, now,
                   next_token, faults, closed, connection, sweeper>>

\* line 1093: if client_id in active_dialogs.values(): ... return
TakeCheck(w) ==
    /\ workers[w].pc = "check"
    /\ IF already_claimed(Cur, workers[w].client)
       THEN /\ Commit(take_reject(Cur, workers[w].user, NoFault))
            /\ workers' = [workers EXCEPT ![w].pc = "done", ![w].result = "claimed"]
       ELSE /\ workers' = [workers EXCEPT ![w].pc = "insert"]
            /\ UNCHANGED <<admin_tags, admin_levels, active_dialogs,
                           admin_active_status, one_time_passwords, db,
                           dialog_history, backups, outbox>>
    /\ UNCHANGED <<now, next_token, ops, faults, last, closed, connection, sweeper>>

\* lines 1101-1114: the insert and the two notices
TakeInsert(w) ==
    /\ workers[w].pc = "insert"
    /\ Commit(take_insert(Cur, workers[w].user, workers[w].client, NoFault))
    /\ workers' = [workers EXCEPT ![w].pc = "done", ![w].result = "took"]
    /\ UNCHANGED <<now, next_token, ops, faults, last, closed, connection, sweeper>>

PoolTakeStart == \E w \in Pool, u \in Users, c \in Clients : TakeStart(w, u, c)
PoolTakeCheck == \E w \in Pool : TakeCheck(w)
PoolTakeInsert == \E w \in Pool : TakeInsert(w)

NextPool ==
    \/ PoolTakeStart
    \/ PoolTakeCheck
    \/ PoolTakeInsert

SpecPool == Init /\ [][NextPool]_vars

\* a worker picks up "/set_tag <pw> <tag>" of user u (lines 757-770)
SetTagStart(w, u, pw, tag) ==
    /\ ops < MaxOps
    /\ workers[w].pc \in {"idle", "done"}
    /\ workers' = [workers EXCEPT ![w] =
            [Idle EXCEPT !.pc = "redeem", !.user = u, !.token = pw, !.tag = tag]]
    /\ last' = Call("set_tag", u, pw, tag, FALSE)
    /\ ops' = ops + 1
    /\ UNCHANGED <<admin_tags, admin_levels, active_dialogs, admin_active_status,
                   one_time_passwords, db, dialog_history, backups, outbox, now,
                   next_token, faults, closed, connection, sweeper>>

\* lines 773-775 and the two refusals (811-822): the password is looked up
\* and its age is tested
SetTagCheck(w) ==
    LET u == workers[w].user
        pw == workers[w].token
    IN /\ workers[w].pc = "redeem"
       /\ IF Has(one_time_passwords, pw) /\ now - Get(one_time_passwords, pw) <= PASSWORD_TTL
          THEN /\ workers' = [workers EXCEPT ![w].pc = "store"]
               /\ UNCHANGED <<admin_tags, admin_levels, active_dialogs,
                              admin_active_status, one_time_passwords, db,
                              dialog_history, backups, outbox>>
          ELSE /\ Commit(set_tag_command(Cur, u, pw, workers[w].tag, NoFault))
               /\ workers' = [workers EXCEPT ![w].pc = "done", ![w].result = "refused"]
       /\ UNCHANGED <<now, next_token, ops, faults, last, closed, connection, sweeper>>

\* lines 776-810: the user is made an admin, then the password is deleted;
\* when another thread deleted it meanwhile, `del` raises KeyError and the
\* handler ends there, after the three assignments
SetTagStore(w) ==
    LET u == workers[w].user
        pw == workers[w].token
        S1 == register_admin(Cur, u, workers[w].tag)
    IN /\ workers[w].pc = "store"
       /\ IF Has(one_time_passwords, pw)
          THEN Commit(store_admin([S1 EXCEPT !.one_time_passwords = Del(@, pw)],
                                  u, workers[w].tag, NoFault))
          ELSE Commit(S1)
       /\ workers' = [workers EXCEPT ![w].pc = "done", ![w].result = "registered"]
       /\ UNCHANGED <<now, next_token, ops, faults, last, closed, connection, sweeper>>

PoolSetTagStart ==
    \E w \in Pool, u \in Registrants, pw \in PasswordArgs, tag \in Tags :
        SetTagStart(w, u, pw, tag)
PoolSetTagCheck == \E w \in Pool : SetTagCheck(w)
PoolSetTagStore == \E w \in Pool : SetTagStore(w)

NextRedeem ==
    \/ GeneratePassword
    \/ PoolSetTagStart
    \/ PoolSetTagCheck
    \/ PoolSetTagStore
    \/ Tick

SpecRedeem == Init /\ [][NextRedeem]_vars

\* a worker picks up a "transfer_<target>" callback of user u and runs the
\* two checks of transfer_client (lines 1228-1262)
TransferStart(w, u, target) ==
    /\ ops < MaxOps
    /\ workers[w].pc \in {"idle", "done"}
    /\ IF Has(active_dialogs, u) /\ ~Has(active_dialogs, target)
       THEN /\ workers' = [workers EXCEPT ![w] =
                    [Idle EXCEPT !.pc = "detach", !.user = u, !.target = target,
                                 !.client = Get(active_dialogs, u)]]
            /\ UNCHANGED <<admin_tags, admin_levels, active_dialogs,
                           admin_active_status, one_time_passwords, db,
                           dialog_history, backups, outbox>>
       ELSE /\ Commit(transfer_client(Cur, u, target, NoFault))
            /\ workers' = [workers EXCEPT ![w] =
                    [Idle EXCEPT !.pc = "done", !.user = u, !.target = target,
                                 !.result = "refused"]]
    /\ last' = Call("transfer", u, target, "", FALSE)
    /\ ops' = ops + 1
    /\ UNCHANGED <<now, next_token, faults, closed, connection, sweeper>>

\* line 1271: del active_dialogs[user_id]; a KeyError (the entry was removed
\* meanwhile) is caught at line 1296 and answered with TransferError
TransferDetach(w) ==
    LET u == workers[w].user
    IN /\ workers[w].pc = "detach"
       /\ IF Has(active_dialogs, u)
          THEN /\ active_dialogs' = Del(active_dialogs, u)
               /\ workers' = [workers EXCEPT ![w].pc = "attach"]
               /\ UNCHANGED <<admin_tags, admin_levels, admin_active_status,
                              one_time_passwords, db, dialog_history, backups,
                              outbox>>
          ELSE /\ Commit(Emit(Cur, u, "TransferError", TRUE))
               /\ workers' = [workers EXCEPT ![w].pc = "done", ![w].result = "error"]
       /\ UNCHANGED <<now, next_token, ops, faults, last, closed, connection, sweeper>>

\* lines 1272-1295: the insert under the target's key, save_state and the
\* three notifications
TransferAttach(w) ==
    LET u == workers[w].user
        target == workers[w].target
        client_id == workers[w].client
        S1 == save_state([Cur EXCEPT !.active_dialogs = Put(@, target, client_id)])
    IN /\ workers[w].pc = "attach"
       /\ Commit(RawSends(S1, NoFault, 1,
                    <<<<client_id, "DialogTransferred">>,
                      <<target, "ClientHandedOver">>,
                      <<u, "TransferDone">>>>))
       /\ workers' = [workers EXCEPT ![w].pc = "done", ![w].result = "moved"]
       /\ UNCHANGED <<now, next_token, ops, faults, last, closed, connection, sweeper>>

PoolTransferStart == \E w \in Pool, u \in Users, target \in Users : TransferStart(w, u, target)
PoolTransferDetach == \E w \in Pool : TransferDetach(w)
PoolTransferAttach == \E w \in Pool : TransferAttach(w)

\* transfer_client on one thread while other threads run handle_message and
\* 'take client'
NextHandover ==
    \/ HandleMessage
    \/ TakeClient
    \/ PoolTransferStart
    \/ PoolTransferDetach
    \/ PoolTransferAttach

SpecHandover == Init /\ [][NextHandover]_vars

----------------------------------------------------------------------------
(* save_state statement by statement, as the "toggle_status" handler runs   *)
(* it on a worker thread.  A transaction fails when an INSERT breaks a       *)
(* constraint of the schema or when SQLite raises an error of its own (the   *)
(* file is locked by the connection of another thread, the disk is full);    *)
(* errors of the second kind are counted in faults.                          *)

Did(w, step) == [workers EXCEPT ![w].steps = Append(@, step)]
Then(ws, w, pc) == [ws EXCEPT ![w].pc = pc]

\* update_admin_panel (lines 1651-1685), which button_callback calls when
\* toggle_activity_status has returned
update_admin_panel(S, user_id) == Emit(S, user_id, "AdminPanel", TRUE)

\* toggle_activity_status up to its call of save_state (lines 1630-1647)
ToggleStart(w, u) ==
    /\ ops < MaxOps
    /\ workers[w].pc \in {"idle", "done"}
    /\ IF Has(admin_levels, u)
       THEN /\ admin_active_status' =
                   Put(admin_active_status, u, ~GetOr(admin_active_status, u, TRUE))
            /\ workers' = [workers EXCEPT ![w] = [Idle EXCEPT !.pc = "save", !.user = u]]
            /\ UNCHANGED outbox
       ELSE /\ workers' = [workers EXCEPT ![w] =
                    [Idle EXCEPT !.pc = "done", !.user = u, !.result = "shown"]]
            /\ outbox' = update_admin_panel(Cur, u).outbox
            /\ UNCHANGED admin_active_status
    /\ last' = Call("toggle_status", u, 0, "", FALSE)
    /\ ops' = ops + 1
    /\ UNCHANGED <<admin_tags, admin_levels, active_dialogs, one_time_passwords,
                   db, dialog_history, backups, now, next_token, faults, closed, connection, sweeper>>

\* save_state returns and the handler redraws the panel
Return(ws, w) == [ws EXCEPT ![w].pc = "done", ![w].result = "shown"]

\* the outcome of one transaction of save_state: it commits the tables of
\* the dicts, or it raises
Transaction(w, committed, raised, failed) ==
    \/ /\ InsertsSucceed(Cur)
       /\ db' = TablesOf(Cur)
       /\ workers' = Return(Did(w, committed), w)
       /\ outbox' = update_admin_panel([Cur EXCEPT !.db = TablesOf(Cur)],
                                       workers[w].user).outbox
       /\ UNCHANGED faults
    \/ /\ ~InsertsSucceed(Cur)
       /\ workers' = Then(Did(w, raised), w, failed)
       /\ UNCHANGED <<db, outbox, faults>>
    \/ /\ faults < MaxFaults
       /\ faults' = faults + 1
       /\ workers' = Then(Did(w, raised), w, failed)
       /\ UNCHANGED <<db, outbox>>

\* lines 678-709: the transaction of save_state
SaveTry(w) ==
    /\ workers[w].pc = "save"
    /\ Transaction(w, "saved", "save failed", "rollback")
    /\ UNCHANGED <<admin_tags, admin_levels, active_dialogs, admin_active_status,
                   one_time_passwords, dialog_history, backups, now,
                   next_token, ops, last, closed, connection, sweeper>>

\* line 713: conn.rollback()
SaveRollback(w) ==
    /\ workers[w].pc = "rollback"
    /\ workers' = Then(Did(w, "rollback"), w, "backup")
    /\ UNCHANGED <<admin_tags, admin_levels, active_dialogs, admin_active_status,
                   one_time_passwords, db, dialog_history, backups, outbox, now,
                   next_token, ops, faults, last, closed, connection, sweeper>>

\* line 717: db._create_backup()
SaveBackup(w) ==
    /\ workers[w].pc = "backup"
    /\ backups' = CreateBackup(Cur).backups
    /\ workers' = Then(Did(w, "backup"), w, "resave")
    /\ UNCHANGED <<admin_tags, admin_levels, active_dialogs, admin_active_status,
                   one_time_passwords, db, dialog_history, outbox, now,
                   next_token, ops, faults, last, closed, connection, sweeper>>

\* lines 719-745: the same inserts without the timestamp columns
SaveRetry(w) ==
    /\ workers[w].pc = "resave"
    /\ Transaction(w, "resaved", "resave failed", "rollback again")
    /\ UNCHANGED <<admin_tags, admin_levels, active_dialogs, admin_active_status,
                   one_time_passwords, dialog_history, backups, now,
                   next_token, ops, last, closed, connection, sweeper>>

\* line 748: conn.rollback() of the retry
SaveRetryRollback(w) ==
    /\ workers[w].pc = "rollback again"
    /\ workers' = Then(Did(w, "rollback"), w, "restore")
    /\ UNCHANGED <<admin_tags, admin_levels, active_dialogs, admin_active_status,
                   one_time_passwords, db, dialog_history, backups, outbox, now,
                   next_token, ops, faults, last, closed, connection, sweeper>>

\* SaveRestore that starts the re-save again after the restore
SaveRestore_ThenRetry(w) ==
    /\ workers[w].pc = "restore"
    /\ db' = RestoreFromBackup(Cur).db
    /\ workers' = Then(Did(w, "restore"), w, "resave")
    /\ UNCHANGED <<admin_tags, admin_levels, active_dialogs, admin_active_status,
                   one_time_passwords, dialog_history, backups, outbox, now,
                   next_token, ops, faults, last, closed, connection, sweeper>>

\* line 751: db._restore_from_backup(), then save_state returns
SaveRestore(w) ==
    /\ workers[w].pc = "restore"
    /\ db' = RestoreFromBackup(Cur).db
    /\ workers' = Return(Did(w, "restore"), w)
    /\ outbox' = update_admin_panel(RestoreFromBackup(Cur), workers[w].user).outbox
    /\ UNCHANGED <<admin_tags, admin_levels, active_dialogs, admin_active_status,
                   one_time_passwords, dialog_history, backups, now,
                   next_token, ops, faults, last, closed, connection, sweeper>>

PoolToggleStart == \E w \in Pool, u \in Users : ToggleStart(w, u)
PoolSaveTry == \E w \in Pool : SaveTry(w)
PoolSaveRollback == \E w \in Pool : SaveRollback(w)
PoolSaveBackup == \E w \in Pool : SaveBackup(w)
PoolSaveRetry == \E w \in Pool : SaveRetry(w)
PoolSaveRetryRollback == \E w \in Pool : SaveRetryRollback(w)
PoolSaveRestore == \E w \in Pool : SaveRestore(w)

\* admins are registered and switch their status
NextSave ==
    \/ GeneratePassword
    \/ SetTag
    \/ PoolToggleStart
    \/ PoolSaveTry
    \/ PoolSaveRollback
    \/ PoolSaveBackup
    \/ PoolSaveRetry
    \/ PoolSaveRetryRollback
    \/ PoolSaveRestore

SpecSave == Init /\ [][NextSave]_vars

----------------------------------------------------------------------------
(* The backup directory over many restarts.  Backup files are named after
   the second they are written in, so the clock is advanced second by second
   and the process is restarted any number of times. *)

\* one second passes.  Only the names of the backup files depend on the
\* second, so the clock is advanced when a file of this second is written.
Second ==
    /\ now < MaxSeconds
    /\ \E i \in DOMAIN backups : backups[i][1] = now
    /\ now' = now + 1
    /\ UNCHANGED <<admin_tags, admin_levels, active_dialogs, admin_active_status,
                   one_time_passwords, db, dialog_history, backups, outbox,
                   next_token, ops, faults, workers, last, closed, connection, sweeper>>

\* the process is restarted: DatabaseConnection() and init_database back up
\* the file (lines 469 and 557)
Reboot ==
    /\ Commit(init_database([Cur EXCEPT !.one_time_passwords = <<>>]))
    /\ last' = Call("restart", 0, 0, "", FALSE)
    /\ connection' = "none"
    /\ sweeper' = Asleep
    /\ UNCHANGED <<now, next_token, ops, faults, workers, closed>>

NextBackups ==
    \/ Second
    \/ Reboot
    \/ GeneratePassword
    \/ SetTag
    \/ ToggleStatus

SpecBackups == Init /\ [][NextBackups]_vars

----------------------------------------------------------------------------
(* DatabaseConnection.get_connection *)

\* the exception a call of get_connection meets: in sqlite3.connect, before
\* self._connection is assigned, or in one of the execute calls after it.
\* sqlite3.OperationalError ("database is locked") is a subclass of
\* sqlite3.DatabaseError ("file is not a database"); sqlite3.InterfaceError
\* and OSError are not.
NoError == [at |-> "nowhere", class |-> "none"]
ConnectionErrors ==
    {NoError} \cup
    [at : {"connect", "execute"},
     class : {"DatabaseError", "OperationalError", "InterfaceError", "OSError"}]
IsDatabaseError(class) == class \in {"DatabaseError", "OperationalError"}

\* get_connection (lines 486-511) with the handle self._connection and the
\* exception e: the new handle, the statements it ran and how it ended
get_connection(S, handle, e) ==
    LET connects == handle = "none"
        failsInConnect == connects /\ e.at = "connect"
        fails == failsInConnect \/ e.at = "execute"
        tried == (IF connects THEN <<"connect">> ELSE <<>>) \o
                 (IF failsInConnect THEN <<>> ELSE <<"execute">>)
        closing == (IF failsInConnect THEN <<>> ELSE <<"close">>) \o <<"discard">>
        restores == IsDatabaseError(e.class)
    IN IF ~fails
       THEN [S |-> S, handle |-> "open", steps |-> tried, result |-> "returned"]
       ELSE [S |-> IF restores THEN RestoreFromBackup(S) ELSE S,
             handle |-> "none",
             steps |-> tried \o closing \o
                       (IF restores THEN <<"restore">> ELSE <<>>) \o <<"raise">>,
             result |-> "raised"]

\* a worker thread calls db.get_connection()
GetConnection(w, e) ==
    /\ ops < MaxOps
    /\ workers[w].pc \in {"idle", "done"}
    /\ e # NoError => faults < MaxFaults
    /\ LET r == get_connection(Cur, connection, e)
       IN /\ db' = r.S.db
          /\ connection' = r.handle
          /\ UNCHANGED sweeper
          /\ workers' = [workers EXCEPT ![w] =
                 [Idle EXCEPT !.pc = "done", !.steps = r.steps, !.result = r.result]]
          /\ faults' = IF r.result = "raised" THEN faults + 1 ELSE faults
    /\ last' = Call("get_connection", w, 0, e.class, FALSE)
    /\ ops' = ops + 1
    /\ UNCHANGED <<admin_tags, admin_levels, active_dialogs, admin_active_status,
                   one_time_passwords, dialog_history, backups, outbox, now,
                   next_token, closed>>

PoolGetConnection == \E w \in Pool, e \in ConnectionErrors : GetConnection(w, e)

NextConnection ==
    \/ PoolGetConnection
    \/ GeneratePassword
    \/ SetTag
    \/ ToggleStatus

SpecConnection == Init /\ [][NextConnection]_vars

----------------------------------------------------------------------------
(* cleanup_tasks: the daemon thread that sweeps the password registry once an
   hour.  It shares one_time_passwords with the handler threads without a
   lock, so a sweep is modelled statement by statement. *)

\* passwords issued in the runs with the sweeper: one can have expired while
\* another one is issued
SweepTokens == MaxTokens + 1

\* lines 1737-1738: current_time = datetime.now() and the iterator over
\* one_time_passwords.items() is created
SweepStart ==
    /\ sweeper.pc = "sleep"
    /\ sweeper' = [Asleep EXCEPT !.pc = "scan", !.current_time = now,
                                 !.size = Len(one_time_passwords)]
    /\ UNCHANGED <<admin_tags, admin_levels, active_dialogs, admin_active_status,
                   one_time_passwords, db, dialog_history, backups, outbox, now,
                   next_token, ops, faults, workers, last, closed, connection>>

\* lines 1738-1741, one step of the list comprehension: the iterator raises
\* RuntimeError when the dict changed its size since the iterator was made
\* (caught at line 1758), and otherwise yields the next item it has not seen
SweepScan ==
    /\ sweeper.pc = "scan"
    /\ LET unseen == {i \in DOMAIN one_time_passwords :
                         one_time_passwords[i][1] \notin sweeper.seen}
       IN IF Len(one_time_passwords) # sweeper.size
          THEN sweeper' = [sweeper EXCEPT !.pc = "sleep", !.result = "RuntimeError"]
          ELSE IF unseen = {}
          THEN sweeper' = [sweeper EXCEPT !.pc = "delete"]
          ELSE LET i == CHOOSE k \in unseen : \A j \in unseen : k <= j
                   pwd == one_time_passwords[i][1]
                   time == one_time_passwords[i][2]
               IN sweeper' = [sweeper EXCEPT
                      !.seen = @ \cup {pwd},
                      !.expired = IF sweeper.current_time - time > PASSWORD_TTL
                                  THEN Append(@, pwd) ELSE @]
    /\ UNCHANGED <<admin_tags, admin_levels, active_dialogs, admin_active_status,
                   one_time_passwords, db, dialog_history, backups, outbox, now,
                   next_token, ops, faults, workers, last, closed, connection>>

\* lines 1742-1743, one turn of the loop: del one_time_passwords[pwd]; a
\* KeyError (the password was removed meanwhile) ends the sweep at line 1758
SweepDelete ==
    /\ sweeper.pc = "delete"
    /\ IF sweeper.expired = <<>>
       THEN /\ sweeper' = [sweeper EXCEPT !.pc = "sleep", !.result = "swept"]
            /\ UNCHANGED one_time_passwords
       ELSE IF Has(one_time_passwords, Head(sweeper.expired))
       THEN /\ one_time_passwords' = Del(one_time_passwords, Head(sweeper.expired))
            /\ sweeper' = [sweeper EXCEPT !.expired = Tail(@)]
       ELSE /\ sweeper' = [sweeper EXCEPT !.pc = "sleep", !.result = "KeyError"]
            /\ UNCHANGED one_time_passwords
    /\ UNCHANGED <<admin_tags, admin_levels, active_dialogs, admin_active_status,
                   db, dialog_history, backups, outbox, now,
                   next_token, ops, faults, workers, last, closed, connection>>

\* button "generate_password" while the sweeper runs
IssuePassword ==
    \E u \in Users :
        /\ next_token < SweepTokens
        /\ Invoke(generate_password(Cur, u, next_token + 1, NoFault),
                  Call("generate_password", u, next_token + 1, "", FALSE), NoFault)
        /\ next_token' = IF GetOr(admin_levels, u, 0) = 2
                         THEN next_token + 1 ELSE next_token

NextSweep ==
    \/ SweepStart
    \/ SweepScan
    \/ SweepDelete
    \/ IssuePassword
    \/ SetTag
    \/ Tick
    \/ Restart

SpecSweep == Init /\ [][NextSweep]_vars

----------------------------------------------------------------------------
(* Vocabulary of the properties *)

Holders(c) == {a \in Keys(active_dialogs) : Get(active_dialogs, a) = c}
Registered(a) == Has(admin_levels, a)
Told(box, chat, kind) == \E i \in DOMAIN box : box[i].to = chat /\ box[i].kind = kind
TimesTold(box, chat) == Cardinality({i \in DOMAIN box : box[i].to = chat})
Ran(op) == ops' = ops + 1 /\ last'.op = op
Memory == <<admin_tags, admin_levels, active_dialogs, admin_active_status>>

----------------------------------------------------------------------------
(* Properties *)

\* C1: in every reachable state no client id is the value of two distinct
\* admin keys of active_dialogs.
C1_NoClientHeldTwice ==
    \A i, j \in DOMAIN active_dialogs :
        active_dialogs[i][2] = active_dialogs[j][2] => i = j

\* C2: when the 'take client' handlers of two admins for the same unclaimed
\* client run concurrently, exactly one admin ends up holding the client and
\* the other is told that the client is already claimed.
C2_ExactlyOneTakeWins ==
    \A w1, w2 \in Pool :
        (/\ w1 # w2
         /\ workers[w1].pc = "done" /\ workers[w2].pc = "done"
         /\ workers[w1].client = workers[w2].client
         /\ workers[w1].user # workers[w2].user
         /\ Registered(workers[w1].user) /\ Registered(workers[w2].user)
         /\ workers[w1].unclaimed /\ workers[w2].unclaimed)
        => \E w \in {w1, w2}, v \in {w1, w2} :
              /\ w # v
              /\ workers[w].result = "took"
              /\ workers[v].result = "claimed"
              /\ Holders(workers[w].client) = {workers[w].user}

\* C3: in every reachable state no two registered admins hold tags that are
\* equal ignoring case; a redemption whose tag another admin already holds
\* creates no admin.
C3_TagsUniqueIgnoringCase ==
    \A i, j \in DOMAIN admin_tags :
        Lower(admin_tags[i][2]) = Lower(admin_tags[j][2]) => i = j

\* C4: a 'take client' press by an admin who already holds an assignment, for
\* a client nobody holds, is answered with AdminBusy and leaves active_dialogs
\* unchanged.
C4_BusyAdminCannotTake ==
    [][(/\ Ran("take_client")
        /\ Registered(last'.user)
        /\ Has(active_dialogs, last'.user)
        /\ Holders(last'.arg) = {})
       => (/\ active_dialogs' = active_dialogs
           /\ Told(outbox', last'.user, "AdminBusy"))]_vars

\* the admins a tag names, and the one admin the tag scan resolves it to
Named(tag) ==
    {admin_tags[i][1] : i \in {k \in DOMAIN admin_tags :
                                  Lower(admin_tags[k][2]) = Lower(tag)}}
ResolvesTo(tag, a) ==
    \E i \in DOMAIN admin_tags :
        /\ admin_tags[i][1] = a
        /\ Lower(admin_tags[i][2]) = Lower(tag)
        /\ \A j \in 1..(i - 1) : Lower(admin_tags[j][2]) # Lower(tag)
IsActive(a) == GetOr(admin_active_status, a, TRUE)
TagRequest == Ran("message") /\ last'.hash /\ ~Registered(last'.user)

\* C5 as stated: a '#tag' of a non-admin that names a registered, active admin
\* without an assignment assigns that admin to the sender and notifies both;
\* while an admin holds an assignment, a '#tag' naming it from another client
\* is answered AdminBusy and changes no state.
C5_AsStated ==
    [][TagRequest =>
        \A a \in Named(last'.text) :
            /\ (IsActive(a) /\ ~Has(active_dialogs, a))
                => /\ Has(active_dialogs', a)
                   /\ Get(active_dialogs', a) = last'.user
                   /\ Told(outbox', last'.user, "TagSelected")
                   /\ Told(outbox', a, "ClientChoseYou")
            /\ (Has(active_dialogs, a) /\ Get(active_dialogs, a) # last'.user)
                => /\ Told(outbox', last'.user, "AdminBusy")
                   /\ UNCHANGED <<Memory, one_time_passwords, db>>]_vars

\* C5 amended: a '#tag' of a non-admin is resolved to the first admin of the
\* registry whose tag equals it ignoring case.  If that admin is active and
\* holds no assignment, it becomes assigned to the sender, every other entry
\* is kept, and both are sent a notice; if it is active and holds an
\* assignment, the sender is answered AdminBusy and no state changes.  (Stated
\* for handlers whose sends are all delivered.)
C5_TagSelection ==
    [][TagRequest =>
        \A a \in Users :
            (/\ ResolvesTo(last'.text, a) /\ IsActive(a)
             /\ \A i \in DOMAIN outbox' : outbox'[i].ok) =>
                IF Has(active_dialogs, a)
                THEN /\ Told(outbox', last'.user, "AdminBusy")
                     /\ UNCHANGED <<Memory, one_time_passwords, db>>
                ELSE /\ active_dialogs' = Append(active_dialogs, <<a, last'.user>>)
                     /\ Told(outbox', last'.user, "TagSelected")
                     /\ Told(outbox', a, "ClientChoseYou")
                     /\ UNCHANGED <<admin_tags, admin_levels, admin_active_status>>]_vars

\* C5 witness: a client was just answered AdminBusy for a tag whose admin is
\* active and holds another client
C5_SecondClientTurnedAway ==
    /\ last.op = "message" /\ last.hash /\ ~Registered(last.user)
    /\ Told(outbox, last.user, "AdminBusy")
    /\ \E a \in Users :
          /\ ResolvesTo(last.text, a) /\ IsActive(a)
          /\ Has(active_dialogs, a) /\ Get(active_dialogs, a) # last.user
          /\ <<a, Get(active_dialogs, a)>> \in db.active_dialogs

\* the admin that the scan of a client's plain message finds
RoutedTo(dialogs, c, a) ==
    \E i \in DOMAIN dialogs :
        /\ dialogs[i] = <<a, c>>
        /\ \A j \in 1..(i - 1) : dialogs[j][2] # c

\* C6: if admin A holds client C and admin B holds no assignment, a transfer
\* from A to B ends with B -> C in the table and no entry for A, the plain
\* messages of C are then routed to B, and A, B and C each receive exactly
\* one notification.
C6_TransferHandsOver ==
    [][(/\ Ran("transfer")
        /\ Registered(last'.user) /\ Registered(last'.arg)
        /\ Has(active_dialogs, last'.user)
        /\ ~Has(active_dialogs, last'.arg))
       => LET A == last'.user
              B == last'.arg
              C == Get(active_dialogs, A)
          IN /\ Has(active_dialogs', B) /\ Get(active_dialogs', B) = C
             /\ ~Has(active_dialogs', A)
             /\ RoutedTo(active_dialogs', C, B)
             /\ TimesTold(outbox', A) = 1
             /\ TimesTold(outbox', B) = 1
             /\ TimesTold(outbox', C) = 1]_vars

\* C7: transfer fails with NoActiveDialog when the initiator holds no
\* assignment and with TargetBusy when the target holds one (target =
\* initiator included); memory and the persisted tables are unchanged, and on
\* TargetBusy the initiator is shown the list of the other admins again.
C7_TransferRejections ==
    [][Ran("transfer") =>
        /\ ~Has(active_dialogs, last'.user)
            => /\ Told(outbox', last'.user, "NoActiveDialog")
               /\ UNCHANGED <<Memory, db>>
        /\ (Has(active_dialogs, last'.user) /\ Has(active_dialogs, last'.arg))
            => /\ Told(outbox', last'.user, "TargetBusy")
               /\ UNCHANGED <<Memory, db>>
               /\ \E i \in DOMAIN outbox' :
                     /\ outbox'[i].to = last'.user
                     /\ outbox'[i].kind = "ChooseTarget"
                     /\ {outbox'[i].targets[k] : k \in DOMAIN outbox'[i].targets}
                            = Keys(admin_tags) \ {last'.user}]_vars

\* an admin whose dialog confirm_close ended and who holds none now
ClosedBefore(a) ==
    /\ \E c \in Users : <<a, c>> \in closed
    /\ ~Has(active_dialogs, a)

\* C8: the first confirm_close of an admin removes exactly that admin's entry
\* and notifies the client it held; after it, a second close by the same
\* admin (close_dialog or confirm_close) yields NoActiveDialog and leaves the
\* admin registry, the assignment table and the active flags unchanged.
C8_ReleaseIdempotent ==
    [][/\ (Ran("confirm_close") /\ Has(active_dialogs, last'.user))
            => /\ active_dialogs' = Del(active_dialogs, last'.user)
               /\ Told(outbox', Get(active_dialogs, last'.user), "DialogClosed")
               /\ UNCHANGED <<admin_tags, admin_levels, admin_active_status>>
       /\ ((Ran("confirm_close") \/ Ran("close_dialog")) /\ ClosedBefore(last'.user))
            => /\ Told(outbox', last'.user, "NoActiveDialog")
               /\ UNCHANGED Memory]_vars

\* the effect alone: a close by an admin who holds no dialog changes nothing
\* in memory, and the first close removes exactly the admin's entry
ReleaseEffect ==
    [][/\ (Ran("confirm_close") /\ Has(active_dialogs, last'.user))
            => /\ active_dialogs' = Del(active_dialogs, last'.user)
               /\ Told(outbox', Get(active_dialogs, last'.user), "DialogClosed")
               /\ UNCHANGED <<admin_tags, admin_levels, admin_active_status>>
       /\ ((Ran("confirm_close") \/ Ran("close_dialog")) /\ ~Has(active_dialogs, last'.user))
            => UNCHANGED Memory
       /\ (Ran("close_dialog") /\ ~Has(active_dialogs, last'.user))
            => Told(outbox', last'.user, "NoActiveDialog")]_vars

\* C9: from every reachable in-memory state, save_state followed by a full
\* reload (init_database) gives back the same tags, levels, assignments and
\* active flags.
C9_SaveReloadRoundTrip ==
    LET reloaded == init_database(save_state(Cur))
    IN /\ DictRows(reloaded.admin_tags) = DictRows(admin_tags)
       /\ DictRows(reloaded.admin_levels) = DictRows(admin_levels)
       /\ DictRows(reloaded.active_dialogs) = DictRows(active_dialogs)
       /\ DictRows(reloaded.admin_active_status) = DictRows(admin_active_status)

\* C10: after every completed mutating operation the persisted tables equal
\* the in-memory tables.
MutatingOps ==
    {"message", "take_client", "confirm_close", "transfer", "set_tag",
     "promote", "toggle_status"}
C10_DurableMirror ==
    last.op \in MutatingOps => db = TablesOf(Cur)

\* the operations that add, move or remove an assignment
AssignmentOps == {"message", "take_client", "confirm_close", "transfer"}

\* C11: whenever tag selection, 'take client', close or transfer changes the
\* assignment table, the change is on disk before the first notification of
\* that operation is sent, so a crash between the two keeps the change.
C11_PersistBeforeNotify ==
    [][((\E op \in AssignmentOps : Ran(op)) /\ active_dialogs' # active_dialogs)
        => \A i \in DOMAIN outbox' : outbox'[i].persisted]_vars

\* age of a password of the registry, in seconds
Age(password) == now - Get(one_time_passwords, password)

\* C12: redeeming a password more than 24 hours after it was issued is
\* answered PasswordExpired, deletes that password and creates no admin (tags,
\* levels and active flags unchanged); redeeming a token that is not in the
\* registry is answered InvalidPassword and changes nothing.
C12_ExpiredOrUnknownPassword ==
    [][Ran("set_tag") =>
        IF Has(one_time_passwords, last'.arg)
        THEN Age(last'.arg) > 24 * 60 * 60
                => /\ Told(outbox', last'.user, "PasswordExpired")
                   /\ one_time_passwords' = Del(one_time_passwords, last'.arg)
                   /\ UNCHANGED <<Memory, db>>
        ELSE /\ Told(outbox', last'.user, "InvalidPassword")
             /\ UNCHANGED <<Memory, one_time_passwords, db>>]_vars

\* C12 witness: a password issued earlier was just refused as expired and is
\* gone from the registry, and the user who typed it is no admin
C12_ExpiredRefused ==
    /\ last.op = "set_tag"
    /\ Told(outbox, last.user, "PasswordExpired")
    /\ last.arg \in 1..next_token
    /\ ~Has(one_time_passwords, last.arg)
    /\ ~Registered(last.user)

\* C13: an issued password authorises at most one registration: after a
\* successful redemption the token is gone, and when two set_tag handlers
\* redeem the same token concurrently at most one of them creates an admin.
C13_SingleUse ==
    /\ \A w \in Pool :
          (workers[w].pc = "done" /\ workers[w].result = "registered")
              => ~Has(one_time_passwords, workers[w].token)
    /\ \A w1, w2 \in Pool :
          (/\ w1 # w2
           /\ workers[w1].pc = "done" /\ workers[w2].pc = "done"
           /\ workers[w1].token = workers[w2].token
           /\ workers[w1].user # workers[w2].user)
          => ~(workers[w1].result = "registered" /\ workers[w2].result = "registered")

\* the level of a user, 0 for a user that is no admin
LevelOf(a) == GetOr(admin_levels, a, 0)

\* C14: promote fails Unauthorized unless the actor is level 2, NotAnAdmin if
\* the target is not registered and AlreadyMaxLevel if the target is level 2,
\* each time leaving levels, active flags and assignments unchanged; on
\* success exactly the target's level becomes 2, its active flag becomes
\* true, and the change is persisted.
C14_Promote ==
    [][Ran("promote") =>
        LET actor == last'.user
            target == last'.arg
            Rejected(kind) ==
                /\ Told(outbox', actor, kind)
                /\ UNCHANGED <<Memory, db>>
        IN IF LevelOf(actor) # 2 THEN Rejected("Unauthorized")
           ELSE IF ~Registered(target) THEN Rejected("NotAnAdmin")
           ELSE IF LevelOf(target) = 2 THEN Rejected("AlreadyMaxLevel")
           ELSE /\ admin_levels' = Put(admin_levels, target, 2)
                /\ admin_active_status' = Put(admin_active_status, target, TRUE)
                /\ UNCHANGED <<admin_tags, active_dialogs>>
                /\ <<target, 2>> \in db'.admin_levels
                /\ <<target, 1>> \in db'.admin_status]_vars

\* the promotion in memory alone
PromoteInMemory ==
    [][Ran("promote") =>
        LET actor == last'.user
            target == last'.arg
            Rejected(kind) ==
                /\ Told(outbox', actor, kind)
                /\ UNCHANGED <<Memory, db>>
        IN IF LevelOf(actor) # 2 THEN Rejected("Unauthorized")
           ELSE IF ~Registered(target) THEN Rejected("NotAnAdmin")
           ELSE IF LevelOf(target) = 2 THEN Rejected("AlreadyMaxLevel")
           ELSE /\ admin_levels' = Put(admin_levels, target, 2)
                /\ admin_active_status' = Put(admin_active_status, target, TRUE)
                /\ UNCHANGED <<admin_tags, active_dialogs>>]_vars

\* C15: a password enters the registry only through generate_password of an
\* actor whose level is 2 at that moment, and a user becomes a registered
\* admin only by redeeming a password that is in the registry.
C15_PasswordsFromLevel2 ==
    [][/\ (Keys(one_time_passwords') \ Keys(one_time_passwords) # {})
            => /\ Ran("generate_password")
               /\ LevelOf(last'.user) = 2
               /\ Keys(one_time_passwords') \ Keys(one_time_passwords) = {last'.arg}
       /\ \A a \in Users :
            (~Registered(a) /\ Has(admin_levels', a))
                => /\ Ran("set_tag")
                   /\ last'.user = a
                   /\ Has(one_time_passwords, last'.arg)
                   /\ Get(admin_levels', a) = 1]_vars

\* C15 witness: a level-1 admin exists, the latest press of generate_password
\* came from a level-2 admin, and its password is in the registry
C15_IssuedByLevel2 ==
    /\ last.op = "generate_password"
    /\ LevelOf(last.user) = 2
    /\ Has(one_time_passwords, last.arg)
    /\ \E a \in Users : LevelOf(a) = 1

\* C15 witness of the refusal: a level-1 admin pressed generate_password and
\* the registry is empty
LevelOnePressedGenerate ==
    /\ last.op = "generate_password"
    /\ LevelOf(last.user) = 1
    /\ one_time_passwords = <<>>

\* the active flags of the admins other than a, and the flag of a on disk
OtherFlags(flags, a) == {p \in DictRows(flags) : p[1] # a}
FlagOnDisk(tables, a) == {p[2] : p \in {q \in tables.admin_status : q[1] = a}}

\* C16: toggle-active by a registered admin flips only that admin's active
\* flag and persists it; the assignment table (the admin's own dialog
\* included), every tag and level and every other admin's flag are
\* unchanged; toggle-active by a non-admin changes nothing.
C16_ToggleFrame ==
    [][Ran("toggle_status") =>
        LET a == last'.user
        IN IF Registered(a)
           THEN /\ GetOr(admin_active_status', a, TRUE) = ~IsActive(a)
                /\ OtherFlags(admin_active_status', a) = OtherFlags(admin_active_status, a)
                /\ UNCHANGED <<admin_tags, admin_levels, active_dialogs>>
                /\ FlagOnDisk(db', a) = {BoolToInt(~IsActive(a))}
           ELSE UNCHANGED <<Memory, db>>]_vars

\* the toggle in memory alone
ToggleInMemory ==
    [][Ran("toggle_status") =>
        LET a == last'.user
        IN IF Registered(a)
           THEN /\ GetOr(admin_active_status', a, TRUE) = ~IsActive(a)
                /\ OtherFlags(admin_active_status', a) = OtherFlags(admin_active_status, a)
                /\ UNCHANGED <<admin_tags, admin_levels, active_dialogs>>
           ELSE UNCHANGED <<Memory, db>>]_vars

\* C17: a '#tag' of a non-admin that names an admin whose active flag is
\* false is answered AdminInactive and changes no state; a '#tag' that equals
\* no admin's tag ignoring case is answered AdminNotFound and changes no
\* state.
C17_InactiveOrUnknownTag ==
    [][TagRequest =>
        /\ (\E a \in Named(last'.text) : ~IsActive(a))
            => /\ Told(outbox', last'.user, "AdminInactive")
               /\ UNCHANGED <<Memory, one_time_passwords, db>>
        /\ Named(last'.text) = {}
            => /\ Told(outbox', last'.user, "AdminNotFound")
               /\ UNCHANGED <<Memory, one_time_passwords, db>>]_vars

\* the same for the admin the tag scan stops at
InactiveFirstMatch ==
    [][TagRequest =>
        /\ (\E a \in Users : ResolvesTo(last'.text, a) /\ ~IsActive(a))
            => /\ Told(outbox', last'.user, "AdminInactive")
               /\ UNCHANGED <<Memory, one_time_passwords, db>>
        /\ Named(last'.text) = {}
            => /\ Told(outbox', last'.user, "AdminNotFound")
               /\ UNCHANGED <<Memory, one_time_passwords, db>>]_vars

\* the text of the latest message, and the row the history gets for it
Sent(call) == [hash |-> call.hash, body |-> call.text]
Logged(sender, receiver, call) ==
    Append(dialog_history, <<sender, receiver, Sent(call)>>)
LastRow(h) == h[Len(h)]

\* C18: a text message of a registered admin who holds an assignment is
\* forwarded to the client of that assignment and to no other chat, is
\* appended to the history with the admin as sender and the client as
\* receiver, and leaves the registry and the assignment table unchanged.
C18_AdminReplyForwarded ==
    [][(Ran("message") /\ Registered(last'.user) /\ Has(active_dialogs, last'.user))
       => LET client == Get(active_dialogs, last'.user)
          IN /\ Len(outbox') = 1
             /\ outbox'[1].to = client /\ outbox'[1].kind = "AdminReply"
             /\ dialog_history' = Logged(last'.user, client, last')
             /\ UNCHANGED <<Memory, one_time_passwords, db>>]_vars

\* C18 witness: an admin's message just went to the client the admin holds
\* and is the newest row of the history
C18_ReplySent ==
    /\ last.op = "message" /\ Registered(last.user)
    /\ Has(active_dialogs, last.user)
    /\ Len(outbox) = 1
    /\ outbox[1].to = Get(active_dialogs, last.user) /\ outbox[1].kind = "AdminReply"
    /\ dialog_history # <<>>
    /\ LastRow(dialog_history) = <<last.user, Get(active_dialogs, last.user), Sent(last)>>

\* C19: a text message of a registered admin who holds no assignment is
\* dropped: nothing is sent, nothing is written to the history and no state
\* changes, even when the text is '#' followed by another admin's tag.
C19_IdleAdminDropped ==
    [][(Ran("message") /\ Registered(last'.user) /\ ~Has(active_dialogs, last'.user))
       => /\ outbox' = <<>>
          /\ UNCHANGED <<Memory, one_time_passwords, db, dialog_history, backups>>]_vars

\* C19 witness: an idle admin just sent '#' with the tag of another, active
\* and idle admin, and nothing was sent and no dialog exists
C19_IdleAdminNamedAnother ==
    /\ last.op = "message" /\ last.hash
    /\ Registered(last.user) /\ ~Has(active_dialogs, last.user)
    /\ \E a \in Users \ {last.user} :
          ResolvesTo(last.text, a) /\ IsActive(a) /\ ~Has(active_dialogs, a)
    /\ outbox = <<>>
    /\ dialog_history = <<>>

\* C20: a plain message of a non-admin client that some assignment holds is
\* forwarded to the admin holding the client (the first such entry of the
\* table), to no other admin and not to the admin channel, and is logged to
\* the history; the assignment table is unchanged.
C20_ClientMessageRouted ==
    [][(/\ Ran("message") /\ ~last'.hash
        /\ ~Registered(last'.user)
        /\ Holders(last'.user) # {})
       => \E a \in Holders(last'.user) :
             /\ RoutedTo(active_dialogs, last'.user, a)
             /\ Len(outbox') = 1
             /\ outbox'[1].to = a /\ outbox'[1].kind = "ClientMessage"
             /\ a # ADMIN_CHAT_ID
             /\ dialog_history' = Logged(last'.user, a, last')
             /\ UNCHANGED <<Memory, one_time_passwords, db>>]_vars

\* C20 witness: a held client's plain message just went to its admin and is
\* the newest row of the history
C20_ClientHeard ==
    /\ last.op = "message" /\ ~last.hash /\ ~Registered(last.user)
    /\ \E a \in Holders(last.user) :
          /\ Registered(a)
          /\ outbox = <<Msg(a, "ClientMessage", TRUE, Mirrored(Cur))>>
          /\ dialog_history # <<>>
          /\ LastRow(dialog_history) = <<last.user, a, Sent(last)>>

\* a client whose plain message was just broadcast to the admin channel
Waiting(c) ==
    /\ last.op = "message" /\ ~last.hash /\ last.user = c
    /\ ~Registered(c)
    /\ Holders(c) = {}

\* the effect of a plain message of a non-admin client that nobody holds
BroadcastEffect ==
    [][(/\ Ran("message") /\ ~last'.hash
        /\ ~Registered(last'.user)
        /\ Holders(last'.user) = {})
       => /\ Len(outbox') = 2
          /\ outbox'[1].to = ADMIN_CHAT_ID /\ outbox'[1].kind = "NewClientMessage"
          /\ outbox'[1].targets = <<last'.user>>
          /\ outbox'[2].to = last'.user /\ outbox'[2].kind = "Received"
          /\ UNCHANGED <<Memory, one_time_passwords, db, dialog_history>>]_vars

\* C21: a plain message of a non-admin client that no admin holds sends
\* exactly one notification with a claim button for the client to the admin
\* channel and one acknowledgement to the sender and creates no assignment;
\* the client then stays unassigned until an admin claims it or the client
\* selects an admin by tag.
C21_BroadcastWithoutAssignment ==
    [][/\ (/\ Ran("message") /\ ~last'.hash
            /\ ~Registered(last'.user)
            /\ Holders(last'.user) = {})
           => /\ Len(outbox') = 2
              /\ outbox'[1].to = ADMIN_CHAT_ID /\ outbox'[1].kind = "NewClientMessage"
              /\ outbox'[1].targets = <<last'.user>>
              /\ outbox'[2].to = last'.user /\ outbox'[2].kind = "Received"
              /\ UNCHANGED <<Memory, one_time_passwords, db, dialog_history>>
       /\ \A c \in Users :
            (Waiting(c) /\ c \in Values(active_dialogs'))
                => \/ Ran("take_client") /\ last'.arg = c
                   \/ Ran("message") /\ last'.hash /\ last'.user = c]_vars

\* the latest handler invocation is one that the handler refuses: a conflict
\* (busy admin, claimed client, busy target, no dialog to close or transfer),
\* an invalid argument, or an actor without the level the operation needs
Refused ==
    \/ /\ TagRequest
       /\ \E a \in Users :
             ResolvesTo(last'.text, a) /\ IsActive(a) /\ Has(active_dialogs, a)
    \/ Ran("take_client") /\ last'.arg \in Values(active_dialogs)
    \/ /\ Ran("transfer")
       /\ ~Has(active_dialogs, last'.user) \/ Has(active_dialogs, last'.arg)
    \/ /\ Ran("close_dialog") \/ Ran("confirm_close") \/ Ran("transfer_client")
       /\ ~Has(active_dialogs, last'.user)
    \/ /\ Ran("set_tag")
       /\ Has(one_time_passwords, last'.arg) => Age(last'.arg) > PASSWORD_TTL
    \/ /\ Ran("promote")
       /\ \/ LevelOf(last'.user) # 2
          \/ LevelOf(last'.arg) # 1
    \/ Ran("generate_password") /\ LevelOf(last'.user) # 2
    \/ Ran("toggle_status") /\ ~Registered(last'.user)

\* C22: every operation that is refused for a conflict, validation or
\* authorization reason sends a message to the actor who started it.
C22_NoSilentRejection ==
    [][Refused => TimesTold(outbox', last'.user) >= 1]_vars

\* the chats whose send raised the error `how` in the latest handler
FailedWith(box, how) == {box[i].to : i \in {k \in DOMAIN box : box[k].how = how}}
\* an entry of the assignment table, in memory or on disk, names chat x
References(dialogs, tables, x) ==
    \/ x \in Keys(dialogs) \cup Values(dialogs)
    \/ \E row \in tables.active_dialogs : x \in {row[1], row[2]}

\* C23: when a send to chat X fails with Unauthorized, then after the
\* operation that attempted the send no assignment references X, in memory
\* and on disk, whichever handler sent it.
C23_BlockedChatDropped ==
    [][(\E op \in MutatingOps : Ran(op))
        => \A x \in FailedWith(outbox', "unauthorized") :
              ~References(active_dialogs', db', x)]_vars

\* the rows of the history that name chat x as sender or receiver
HistoryRowsOf(h, x) == {i \in DOMAIN h : h[i][1] = x \/ h[i][2] = x}

\* C24: when a send to chat X fails with ChatMigrated(Y), then after the
\* operation no assignment and no history row references X, the rewritten
\* assignment table is on disk, and the message was sent again exactly once,
\* to Y.
C24_MigratedChatRewritten ==
    [][(\E op \in MutatingOps : Ran(op))
        => \A i \in DOMAIN outbox' :
              outbox'[i].how = "migrated" =>
                 LET X == outbox'[i].to
                 IN /\ ~References(active_dialogs', db', X)
                    /\ HistoryRowsOf(dialog_history', X) = {}
                    /\ db'.active_dialogs = DictRows(active_dialogs')
                    /\ \E Y \in MigratedIds :
                          {k \in DOMAIN outbox' :
                              /\ outbox'[k].to = Y
                              /\ outbox'[k].kind = outbox'[i].kind} = {i + 1}]_vars

\* the ids that are in the admin registry with a tag and a level
RegistryOf(tags, levels) == Keys(tags) \cap Keys(levels)

\* C25: a registered admin is never removed: an id that is in the registry
\* with a tag and a level is in it, with a tag, after every step, failed
\* saves, restores from a backup and restarts included.
C25_AdminsNeverRemoved ==
    [][RegistryOf(admin_tags, admin_levels)
          \subseteq RegistryOf(admin_tags', admin_levels')]_vars

\* no admin other than a holds the tag, ignoring case
TagFree(tag, a) == Named(tag) \subseteq {a}
\* the rows of a table that belong to admins other than a
RowsOfOthers(rows, a) == {r \in rows : r[1] # a}

\* C26: a /set_tag with a password of the registry that has not expired and
\* a tag no other admin holds makes the caller an admin with that tag, level
\* 1 and active, deletes the password, has the new admin on disk when the
\* handler returns, and leaves every other admin's tag, level and active flag
\* and the assignment table unchanged, in memory and on disk.
C26_RegisterAdmin ==
    [][(/\ Ran("set_tag")
        /\ Has(one_time_passwords, last'.arg)
        /\ Age(last'.arg) <= PASSWORD_TTL
        /\ TagFree(last'.text, last'.user))
       => LET a == last'.user
              tag == last'.text
          IN /\ admin_tags' = Put(admin_tags, a, tag)
             /\ admin_levels' = Put(admin_levels, a, 1)
             /\ admin_active_status' = Put(admin_active_status, a, TRUE)
             /\ one_time_passwords' = Del(one_time_passwords, last'.arg)
             /\ active_dialogs' = active_dialogs
             /\ db'.admin_tags = RowsOfOthers(db.admin_tags, a) \cup {<<a, tag>>}
             /\ db'.admin_levels = RowsOfOthers(db.admin_levels, a) \cup {<<a, 1>>}
             /\ db'.admin_status = RowsOfOthers(db.admin_status, a) \cup {<<a, 1>>}
             /\ db'.active_dialogs = db.active_dialogs]_vars

\* C26 witness: a user who was no admin has just redeemed a password with a
\* free tag while another admin held a client; the user is a level-1 active
\* admin in memory and on disk and the password is gone
C26_NewAdminStored ==
    /\ last.op = "set_tag"
    /\ Told(outbox, last.user, "TagSet")
    /\ TagFree(last.text, last.user)
    /\ Get(admin_tags, last.user) = last.text
    /\ LevelOf(last.user) = 1 /\ IsActive(last.user)
    /\ ~Has(one_time_passwords, last.arg)
    /\ <<last.user, last.text>> \in db.admin_tags
    /\ <<last.user, 1>> \in db.admin_levels
    /\ <<last.user, 1>> \in db.admin_status
    /\ \E b \in Users \ {last.user} : Registered(b) /\ Has(active_dialogs, b)

\* worker w is inside transfer_client, past the busy check and before the
\* insert under the target's key
InTransfer(w) == workers[w].pc \in {"detach", "attach"}
HoldersIn(dialogs, c) == {dialogs[i][1] : i \in {k \in DOMAIN dialogs : dialogs[k][2] = c}}

\* C27: while a transfer of client C is running, no other handler sees C as
\* unassigned (a plain message of C is not broadcast as a new request and a
\* 'take client' for C claims nothing), the insert of the transfer does not
\* overwrite an entry the target acquired after the busy check, and when the
\* transfer is done C is held by one admin only.
C27_TransferAtomic ==
    [][\A w \in Pool :
          LET c == workers[w].client
              target == workers[w].target
          IN /\ (/\ InTransfer(w) /\ Ran("message")
                  /\ ~last'.hash /\ last'.user = c /\ ~Registered(c))
                 => ~Told(outbox', ADMIN_CHAT_ID, "NewClientMessage")
             /\ (InTransfer(w) /\ Ran("take_client") /\ last'.arg = c)
                 => active_dialogs' = active_dialogs
             /\ (/\ workers[w].pc = "attach" /\ workers'[w].pc = "done"
                  /\ Has(active_dialogs, target))
                 => Get(active_dialogs', target) = Get(active_dialogs, target)
             /\ (workers'[w].pc = "done" /\ workers'[w].result = "moved")
                 => Cardinality(HoldersIn(active_dialogs', c)) <= 1]_vars

\* a message of the latest handler was not delivered
SomeSendFailed(box) == \E i \in DOMAIN box : ~box[i].ok

\* C28: when a transfer has been committed (both checks passed and
\* save_state stored the new table) and one of its notifications fails, it
\* is not rolled back: the table holds target -> client and no entry for the
\* initiator, in memory and on disk.
C28_NoRollbackOnNotifyFailure ==
    [][(/\ Ran("transfer")
        /\ Has(active_dialogs, last'.user) /\ ~Has(active_dialogs, last'.arg)
        /\ InsertsSucceed(Cur)
        /\ SomeSendFailed(outbox'))
       => LET client == Get(active_dialogs, last'.user)
          IN /\ Has(active_dialogs', last'.arg)
             /\ Get(active_dialogs', last'.arg) = client
             /\ ~Has(active_dialogs', last'.user)
             /\ <<last'.arg, client>> \in db'.active_dialogs
             /\ \A row \in db'.active_dialogs : row[1] # last'.user]_vars

\* C28 witness: a transfer between two admins has just lost a notification,
\* the initiator was told of the error, and the client is with the target in
\* memory and on disk
C28_MovedDespiteFailure ==
    /\ last.op = "transfer"
    /\ Registered(last.user) /\ Registered(last.arg)
    /\ SomeSendFailed(outbox)
    /\ Told(outbox, last.user, "TransferError")
    /\ Has(active_dialogs, last.arg) /\ ~Has(active_dialogs, last.user)
    /\ Get(active_dialogs, last.arg) \in Clients
    /\ db.active_dialogs = DictRows(active_dialogs)

\* the three ways a call of save_state can run
SaveRuns ==
    {<<"saved">>,
     <<"save failed", "rollback", "backup", "resaved">>,
     <<"save failed", "rollback", "backup", "resave failed", "rollback", "restore">>}
IsPrefix(s, t) == Len(s) <= Len(t) /\ s = SubSeq(t, 1, Len(s))
Count(steps, kinds) == Cardinality({i \in DOMAIN steps : steps[i] \in kinds})
Returned(w) == workers[w].pc = "done" /\ workers[w].steps # <<>>

\* C29: when its transaction fails, save_state rolls back, then takes a
\* backup, then retries the save once, and restores the newest backup only
\* when that retry failed too; a call makes at most two save attempts and at
\* most one restore, and then returns.
C29_SaveStateSteps ==
    \A w \in Pool :
        /\ \E run \in SaveRuns : IsPrefix(workers[w].steps, run)
        /\ Returned(w) => workers[w].steps \in SaveRuns
        /\ Count(workers[w].steps, {"saved", "save failed", "resaved", "resave failed"}) <= 2
        /\ Count(workers[w].steps, {"restore"}) <= 1

\* C29 witness: a call of save_state has returned after both of its
\* transactions failed, and the database file is the newest backup
C29_RestoredAfterTwoFailures ==
    \E w \in Pool :
        /\ workers[w].pc = "done"
        /\ workers[w].steps =
              <<"save failed", "rollback", "backup", "resave failed", "rollback", "restore">>
        /\ backups # <<>>
        /\ db = backups[Len(backups)][2]

\* a call of save_state has returned after its retry stored the tables
SavedByRetry ==
    \E w \in Pool :
        /\ workers[w].pc = "done"
        /\ workers[w].steps = <<"save failed", "rollback", "backup", "resaved">>

\* the operations whose handler calls save_state after changing a dict and
\* then reports the change: tag selection (line 399), transfer (line 1275)
\* and promotion (line 1424)
SavingOps == {"message", "transfer", "promote"}

\* the notifications that report a change as done
SuccessKinds ==
    {"TagSelected", "ClientChoseYou", "TransferDone", "DialogTransferred",
     "ClientHandedOver", "Promoted", "YouArePromoted"}

\* both transactions of the save_state call of this step failed: the dicts it
\* had to store cannot be inserted
SaveFailed == ~InsertsSucceed(Cur)

\* C30: when both the save transaction and the simplified re-save of
\* save_state fail, the mutating operation learns of it and sends no success
\* answer or success notification for the change that was not stored.
C30_SaveFailureSurfaced ==
    [][((\E op \in SavingOps : Ran(op)) /\ Memory' # Memory /\ SaveFailed')
        => \A i \in DOMAIN outbox' : outbox'[i].kind \notin SuccessKinds]_vars

\* worker w returns from save_state in this step
Returns(w) == workers[w].pc \in {"save", "resave", "restore"} /\ workers'[w].pc = "done"

\* C31: save_state is all-or-nothing on the stored tables: the step in which a
\* call returns either stores exactly the tables of the dicts or leaves the
\* four tables as the file holds them; it never puts back an older snapshot.
C31_SaveAllOrNothing ==
    [][\A w \in Pool : Returns(w) => (db' = TablesOf(Cur) \/ db' = db)]_vars

\* the names (seconds) of the backup files
Names(files) == {files[i][1] : i \in DOMAIN files}
\* the n greatest of a set of names
Newest(names, n) == {x \in names : Cardinality({y \in names : y > x}) < n}

\* C32: after every backup creation at most 5 backup files exist, they are
\* the 5 newest by file name of the files before it and the new one, and a
\* backup is never a copy of a database file that does not exist.
BackupTaken ==
    \/ Reboot
    \/ Ran("toggle_status") /\ Has(admin_levels, last'.user) /\ ~InsertsSucceed(Cur)'
    \/ backups' # backups
C32_BackupRetention ==
    [][BackupTaken =>
        /\ Len(backups') <= BACKUP_KEEP
        /\ Cardinality(Names(backups')) = Len(backups')
        /\ Names(backups') = Newest(Names(backups) \cup {now}, BACKUP_KEEP)
        /\ backups'[Len(backups')] = <<now, db>>
        /\ \A i \in DOMAIN backups' : backups'[i][2] # EmptyTables]_vars

\* five backups are kept and the oldest ones have been deleted
C32_OldestDeleted ==
    /\ Len(backups) = BACKUP_KEEP
    /\ Names(backups) = (now - BACKUP_KEEP + 1)..now
    /\ now >= BACKUP_KEEP

\* position of the first occurrence of a statement in a step log, 0 if none
Position(steps, step) ==
    IF \E i \in DOMAIN steps : steps[i] = step
    THEN CHOOSE i \in DOMAIN steps : steps[i] = step /\ \A j \in 1..(i - 1) : steps[j] # step
    ELSE 0
\* the call of get_connection of this step and its step log
Raises(w) == Ran("get_connection") /\ last'.user = w /\ workers'[w].result = "raised"
StepsOf(w) == workers'[w].steps

\* after a failed call no handle is kept, an open handle was closed first,
\* and a sqlite3.DatabaseError restores the newest backup before the raise
HandleDiscarded ==
    [][\A w \in Pool : Raises(w) =>
        /\ connection' = "none"
        /\ Position(StepsOf(w), "discard") > 0
        /\ Position(StepsOf(w), "execute") > 0 =>
              /\ Position(StepsOf(w), "close") > Position(StepsOf(w), "execute")
              /\ Position(StepsOf(w), "close") < Position(StepsOf(w), "discard")
        /\ last'.text = "DatabaseError" =>
              /\ Position(StepsOf(w), "restore") > Position(StepsOf(w), "discard")
              /\ Position(StepsOf(w), "restore") < Position(StepsOf(w), "raise")
              /\ backups # <<>> => db' = backups[Len(backups)][2]]_vars

\* C33: on a storage fault get_connection closes and discards its handle,
\* attempts one fresh reconnect, restores the database file from the newest
\* backup when the fault is a corruption, and only then lets the failure
\* reach the caller; no stale handle is kept.
C33_ReconnectAfterFault ==
    [][\A w \in Pool : Raises(w) =>
        /\ connection' = "none"
        /\ Position(StepsOf(w), "discard") > 0
        /\ Count(SubSeq(StepsOf(w), Position(StepsOf(w), "discard"), Len(StepsOf(w))),
                 {"connect"}) = 1
        /\ last'.text = "DatabaseError" =>
              /\ Position(StepsOf(w), "restore") > Position(StepsOf(w), "discard")
              /\ Position(StepsOf(w), "restore") < Position(StepsOf(w), "raise")]_vars

\* admin a holds client c
Holds(dialogs, a, c) == Has(dialogs, a) /\ Get(dialogs, a) = c

\* C34: an assignment that confirm_close ended comes back only through a
\* later tag selection, 'take client' or transfer; no other step, a restart
\* included, puts the pair into the assignment table again.
C34_ClosedStaysClosed ==
    [][\A pair \in closed :
          (~Holds(active_dialogs, pair[1], pair[2]) /\ Holds(active_dialogs', pair[1], pair[2]))
              => (Ran("message") \/ Ran("take_client") \/ Ran("transfer"))]_vars

\* the admins of level 2 of a level dict
Level2In(levels) == {a \in Keys(levels) : Get(levels, a) = 2}

\* C35: an admin's level never decreases: a level-2 admin is level 2 after
\* every step, a redemption of a password by that admin and a restart
\* included, so at least one level-2 admin exists in every state.
C35_LevelNeverDecreases ==
    [][/\ Level2In(admin_levels) \subseteq Level2In(admin_levels')
       /\ Level2In(admin_levels') # {}]_vars

\* C36: in every reachable state every key of the assignment table is a
\* registered admin; neither 'take client' nor a transfer makes an id that is
\* not in the admin registry the holder of a client.
C36_HoldersAreAdmins ==
    \A a \in Keys(active_dialogs) : Registered(a)

\* the test of set_tag_command (lines 773-775) on a password at time t
Accepted(registry, password, t) ==
    Has(registry, password) /\ t - Get(registry, password) <= PASSWORD_TTL

\* C37: a password that was issued less than 24 hours ago and has not been
\* redeemed is accepted in every reachable state: a password that passes the
\* test of set_tag_command still passes it after every step that does not
\* redeem it and does not take it past 24 hours, a sweep and a restart included.
C37_ValidPasswordAccepted ==
    [][\A i \in DOMAIN one_time_passwords :
          LET password == one_time_passwords[i][1]
              issued == one_time_passwords[i][2]
          IN (now' - issued <= PASSWORD_TTL
                  /\ ~(Ran("set_tag") /\ last'.arg = password))
             => /\ Accepted(one_time_passwords', password, now')
                /\ Get(one_time_passwords', password) = issued]_vars

\* C38: an admin whose active flag is false never becomes the holder of a new
\* assignment, by tag selection, 'take client' or as the target of a
\* transfer; it can only keep the dialog it holds already.
C38_InactiveGetsNoClient ==
    [][\A a \in Users :
          (~IsActive(a) /\ Has(active_dialogs', a))
              => Holds(active_dialogs, a, Get(active_dialogs', a))]_vars

\* a statement of the sweep runs; the sweep ends, normally or by an exception
SweepStep == SweepStart \/ SweepScan \/ SweepDelete
SweepEnds == (SweepScan \/ SweepDelete) /\ sweeper'.pc = "sleep"
\* the password was issued more than 24 hours before the sweep read the clock
ExpiredAt(t, issued) == t - issued > PASSWORD_TTL

\* what every statement of a sweep keeps: it removes only passwords that had
\* expired when the sweep read the clock, and it leaves the admin registry,
\* the active flags and the assignment table alone
SweepFrame ==
    [][SweepStep =>
        /\ UNCHANGED <<Memory, db>>
        /\ \A i \in DOMAIN one_time_passwords :
              LET password == one_time_passwords[i][1]
                  issued == one_time_passwords[i][2]
              IN \/ Has(one_time_passwords', password)
                       /\ Get(one_time_passwords', password) = issued
                 \/ ExpiredAt(sweeper.current_time, issued)
        /\ Keys(one_time_passwords') \subseteq Keys(one_time_passwords)]_vars

\* C39: the hourly sweep removes exactly the passwords issued more than 24
\* hours earlier: when a sweep is over no such password is left, no password
\* of 24 hours or less was removed, and the admin registry, the active flags
\* and the assignment table are unchanged.
C39_SweepRemovesExactlyExpired ==
    [][/\ SweepStep =>
            /\ UNCHANGED <<Memory, db>>
            /\ \A i \in DOMAIN one_time_passwords :
                  LET password == one_time_passwords[i][1]
                      issued == one_time_passwords[i][2]
                  IN \/ Has(one_time_passwords', password)
                           /\ Get(one_time_passwords', password) = issued
                     \/ ExpiredAt(sweeper.current_time, issued)
       /\ SweepEnds =>
            \A i \in DOMAIN one_time_passwords' :
                ~ExpiredAt(sweeper.current_time, one_time_passwords'[i][2])]_vars

====
